---- MODULE Spec2Model ----
(***************************************************************************)
(* Booking, availability and scheduling logic of the Arohana backend.      *)
(*                                                                         *)
(* Conventions of the model:                                               *)
(*  - a JavaScript Date is its epoch value in milliseconds; the process    *)
(*    runs with the UTC time zone, so local midnight is a multiple of      *)
(*    MsPerDay and day 0 is a Sunday;                                      *)
(*  - a calendar date string "YYYY-MM-DD" of a request is the day number   *)
(*    it denotes;                                                          *)
(*  - a time-of-day string "HH:MM" is the sequence of its characters;      *)
(*  - a booking's id is its index in the bookings table.                   *)
(***************************************************************************)
EXTENDS Integers, Sequences, FiniteSets

VARIABLES
    therapists,   \* table therapists: id -> row
    bookings,     \* table bookings: sequence of rows, id = index
    sessions,     \* table sessions: sequence of rows
    today,        \* the wall clock, as a day number
    resp,         \* the last response sent (or the last job run)
    reqs,         \* requests in flight, when handlers interleave
    reminders,    \* the booking ids of the reminder emails sent, in order
    mail          \* the emails the last booking request tried to send

vars == <<therapists, bookings, sessions, today, resp, reqs, reminders, mail>>

(***************************************************************************)
(* Bounds of the model                                                     *)
(***************************************************************************)
MaxBookings == 2
MaxDay == 2

Null == "null"            \* SQL NULL in a column of strings
Undefined == "undefined"  \* a string field absent from a request
None == <<>>              \* null / undefined where the values are not strings
Some(v) == <<v>>          \* a present value of that kind

(***************************************************************************)
(* Characters, strings and numbers                                         *)
(***************************************************************************)
Digits == <<"0", "1", "2", "3", "4", "5", "6", "7", "8", "9">>

\* Number.prototype.toString for a non-negative integer
RECURSIVE ToString(_)
ToString(n) ==
    IF n < 10 THEN <<Digits[n + 1]>>
    ELSE ToString(n \div 10) \o <<Digits[(n % 10) + 1]>>

\* String.prototype.padStart(len, ch)
RECURSIVE PadStart(_, _, _)
PadStart(s, len, ch) ==
    IF Len(s) >= len THEN s ELSE PadStart(<<ch>> \o s, len, ch)

\* String.prototype.split(sep) for a one-character separator
RECURSIVE Split(_, _)
Split(s, sep) ==
    IF \A i \in 1..Len(s) : s[i] # sep THEN <<s>>
    ELSE LET k == CHOOSE i \in 1..Len(s) :
                      s[i] = sep /\ \A j \in 1..(i - 1) : s[j] # sep
         IN <<SubSeq(s, 1, k - 1)>> \o Split(SubSeq(s, k + 1, Len(s)), sep)

\* Number(str) for a string of decimal digits
RECURSIVE Number(_)
Number(s) ==
    IF Len(s) = 0 THEN 0
    ELSE 10 * Number(SubSeq(s, 1, Len(s) - 1))
         + ((CHOOSE d \in 1..10 : Digits[d] = s[Len(s)]) - 1)

\* const [hour, minute] = str.split(':').map(Number); hour * 60 + minute
ParseMinutes(str) ==
    LET parts == Split(str, ":")
    IN Number(parts[1]) * 60 + Number(parts[2])

(***************************************************************************)
(* Dates                                                                   *)
(***************************************************************************)
MsPerDay == 24 * 60 * 60 * 1000

\* new Date("YYYY-MM-DD"): midnight of that day
NewDate(day) == day * MsPerDay

\* new Date(`${sessionDate}T${sessionTime}`)
NewDateTime(day, timeStr) == day * MsPerDay + ParseMinutes(timeStr) * 60 * 1000

\* Date.prototype.setHours(h, m, s, ms): same day, given time of day
SetHours(date, h, m, s, ms) ==
    (date \div MsPerDay) * MsPerDay + ((h * 60 + m) * 60 + s) * 1000 + ms

\* Date.prototype.getDay(): 0 = Sunday
GetDay(date) == (date \div MsPerDay) % 7

DayNames ==
    <<"sunday", "monday", "tuesday", "wednesday", "thursday", "friday", "saturday">>

\* the day lookup with a Monday-first list of names
DayOfWeek_MondayFirst(date) ==
    <<"monday", "tuesday", "wednesday", "thursday", "friday", "saturday",
      "sunday">>[GetDay(date) + 1]

\* ['sunday', ..., 'saturday'][date.getDay()]
DayOfWeek(date) == DayNames[GetDay(date) + 1]

(***************************************************************************)
(* Users and therapists                                                    *)
(***************************************************************************)
Users == {"p1", "p2", "u1", "u2", "u3", "admin"}

\* User.role
Role ==
    [u \in Users |->
        IF u \in {"p1", "p2"} THEN "patient"
        ELSE IF u = "admin" THEN "admin" ELSE "therapist"]

T0900 == <<"0", "9", ":", "0", "0">>
T0930 == <<"0", "9", ":", "3", "0">>
T1000 == <<"1", "0", ":", "0", "0">>
T1015 == <<"1", "0", ":", "1", "5">>
T1100 == <<"1", "1", ":", "0", "0">>
T1145 == <<"1", "1", ":", "4", "5">>
T1300 == <<"1", "3", ":", "0", "0">>
T1700 == <<"1", "7", ":", "0", "0">>

\* Therapist.availability defaultValue
DefaultAvailability ==
    [d \in {"sunday", "monday", "tuesday", "wednesday", "thursday", "friday",
            "saturday"} |->
        IF d \in {"saturday", "sunday"}
        THEN [start |-> T0900, end |-> T1300, available |-> FALSE]
        ELSE [start |-> T0900, end |-> T1700, available |-> TRUE]]

\* a weekly schedule a therapist has stored with PUT /profile: records for
\* tuesday and wednesday only
AltAvailability ==
    [d \in {"tuesday", "wednesday"} |->
        IF d = "tuesday"
        THEN [start |-> T0930, end |-> T1145, available |-> TRUE]
        ELSE [start |-> T0900, end |-> T1700, available |-> FALSE]]

\* another stored schedule: works on sunday, monday marked unavailable, no
\* record for tuesday, a window shorter than a slot on wednesday
WeekendAvailability ==
    [d \in {"sunday", "monday", "wednesday", "saturday"} |->
        IF d = "sunday" THEN [start |-> T0900, end |-> T1300, available |-> TRUE]
        ELSE IF d = "monday"
        THEN [start |-> T0900, end |-> T1700, available |-> FALSE]
        ELSE IF d = "wednesday"
        THEN [start |-> T1015, end |-> T1100, available |-> TRUE]
        ELSE [start |-> T1000, end |-> T1300, available |-> TRUE]]

\* rows of the therapists table: t1 and t2 verified, t3 not (isVerified default)
TherapistRows ==
    [t \in {"t1", "t2", "t3"} |->
        [userId |-> IF t = "t1" THEN "u1" ELSE IF t = "t2" THEN "u2" ELSE "u3",
         isVerified |-> t # "t3",
         availability |->
             IF t = "t1" THEN DefaultAvailability
             ELSE IF t = "t2" THEN AltAvailability ELSE WeekendAvailability,
         rating |-> 0,
         totalReviews |-> 0]]

\* therapist ids a request may carry; "t0" is the id of no row
TherapistIds == {"t0", "t1", "t2", "t3"}

\* Therapist.findByPk(id)
TherapistFindByPk(ths, id) == IF id \in DOMAIN ths THEN Some(ths[id]) ELSE None

\* Therapist.findOne({ where: { userId } }): the id of the profile the user owns
TherapistOfUser(ths, user) == {t \in DOMAIN ths : ths[t].userId = user}

\* therapist.availability[dayOfWeek]
AvailabilityOf(therapist, dayOfWeek) ==
    IF dayOfWeek \in DOMAIN therapist.availability
    THEN Some(therapist.availability[dayOfWeek])
    ELSE None

\* a test of the record's presence alone
NotAvailable_AbsentOnly(availability) == availability = None

\* !availability || !availability.available
NotAvailable(availability) ==
    availability = None \/ ~availability[1].available

\* the verification test left out
NotVerified_Skipped(therapist) == FALSE

\* !therapist.isVerified
NotVerified(therapist) == ~therapist.isVerified

(***************************************************************************)
(* Bookings                                                                *)
(***************************************************************************)
StatusEnum == {"pending", "confirmed", "cancelled", "completed", "no-show"}

\* Op.in ['pending', 'confirmed']
ActiveStatuses == {"pending", "confirmed"}

\* const { duration = 60 } = req.body
DefaultDuration == 60

\* where: { sessionDate: { [Op.between]: [lo, hi] } }
Between(x, lo, hi) == lo <= x /\ x <= hi

\* the conflict query testing interval overlap instead of the start time
ConflictingBooking_Overlap(bks, therapistId, sessionDateTime, sessionTime) ==
    {i \in 1..Len(bks) :
        /\ bks[i].therapistId = therapistId
        /\ Between(bks[i].sessionDate,
                   SetHours(sessionDateTime, 0, 0, 0, 0),
                   SetHours(sessionDateTime, 23, 59, 59, 999))
        /\ ParseMinutes(sessionTime)
               < ParseMinutes(bks[i].sessionTime) + bks[i].duration
        /\ ParseMinutes(bks[i].sessionTime) < ParseMinutes(sessionTime) + 60
        /\ bks[i].status \in ActiveStatuses}

\* Booking.findOne of createBooking: the rows matching the conflict query
ConflictingBooking(bks, therapistId, sessionDateTime, sessionTime) ==
    {i \in 1..Len(bks) :
        /\ bks[i].therapistId = therapistId
        /\ Between(bks[i].sessionDate,
                   SetHours(sessionDateTime, 0, 0, 0, 0),
                   SetHours(sessionDateTime, 23, 59, 59, 999))
        /\ bks[i].sessionTime = sessionTime
        /\ bks[i].status \in ActiveStatuses}

\* the checks of createBooking on the therapist row: None when the request
\* passes, else the error response
TherapistChecks(ths, body) ==
    LET therapist == TherapistFindByPk(ths, body.therapistId)
        sessionDateTime == NewDateTime(body.sessionDate, body.sessionTime)
        availability == AvailabilityOf(therapist[1], DayOfWeek(sessionDateTime))
    IN IF therapist = None
       THEN Some([status |-> 404, message |-> "Therapist not found"])
       ELSE IF NotVerified(therapist[1])
       THEN Some([status |-> 400, message |-> "Therapist is not verified"])
       ELSE IF NotAvailable(availability)
       THEN Some([status |-> 400,
                  message |-> "Therapist is not available on this day"])
       ELSE None

\* the conflict check of createBooking on the bookings table
ConflictCheck(bks, body) ==
    IF ConflictingBooking(bks, body.therapistId,
                          NewDateTime(body.sessionDate, body.sessionTime),
                          body.sessionTime) # {}
    THEN Some([status |-> 400, message |-> "Time slot is already booked"])
    ELSE None

\* the checks of createBooking before the insert: None when the request passes,
\* else the error response
CreateBookingChecks(ths, bks, body) ==
    IF TherapistChecks(ths, body) # None
    THEN TherapistChecks(ths, body)
    ELSE ConflictCheck(bks, body)

\* a row that takes its status from the request body when one is sent
NewBooking_StatusFromBody(user, body) ==
    [patientId |-> user,
     therapistId |-> body.therapistId,
     sessionDate |-> NewDate(body.sessionDate),
     sessionTime |-> body.sessionTime,
     duration |-> IF body.duration = None THEN DefaultDuration
                  ELSE body.duration[1],
     status |-> IF "status" \in DOMAIN body THEN body.status ELSE "pending",
     cancelledAt |-> None,
     cancelledBy |-> Null,
     cancellationReason |-> Null,
     reminderSent |-> FALSE]

\* the row Booking.create inserts
NewBooking(user, body) ==
    [patientId |-> user,
     therapistId |-> body.therapistId,
     sessionDate |-> NewDate(body.sessionDate),
     sessionTime |-> body.sessionTime,
     duration |-> IF body.duration = None THEN DefaultDuration
                  ELSE body.duration[1],
     status |-> "pending",
     cancelledAt |-> None,
     cancelledBy |-> Null,
     cancellationReason |-> Null,
     reminderSent |-> FALSE]

\* Booking.create: the table has no uniqueness constraint besides the id
\* an insert that a uniqueness constraint on therapist, day, start time and
\* active status turns away
BookingCreate_Unique(bks, row) ==
    IF \E i \in 1..Len(bks) :
          /\ bks[i].therapistId = row.therapistId
          /\ bks[i].sessionDate = row.sessionDate
          /\ bks[i].sessionTime = row.sessionTime
          /\ bks[i].status \in ActiveStatuses
    THEN bks
    ELSE Append(bks, row)

BookingCreate(bks, row) == Append(bks, row)

\* the authorization test shared by updateBooking and cancelBooking
\* an authorization that lets the owner of any therapist profile through
NotAuthorized_AnyTherapist(ths, booking, user) ==
    /\ Role[user] # "admin"
    /\ booking.patientId # user
    /\ TherapistOfUser(ths, user) = {}

NotAuthorized(ths, booking, user) ==
    /\ Role[user] # "admin"
    /\ booking.patientId # user
    /\ \A t \in TherapistOfUser(ths, user) : booking.therapistId # t

\* new Date(): the clock is read at the granularity of a day
Now(day) == NewDate(day)

\* body('status').optional().isIn([...]) of PUT /bookings/:id
ValidStatusField(status) == status = Undefined \/ status \in StatusEnum

\* if (cancellationReason): undefined, null and the empty string are falsy
Truthy(str) == str \notin {Undefined, Null, ""}

\* the stamp of updateBooking with the patient of the booking as the actor
UpdatedBooking_ByPatient(booking, user, body, now) ==
    IF body.status # Undefined /\ body.status \in StatusEnum
    THEN IF body.status = "cancelled"
         THEN [booking EXCEPT
                  !.status = body.status,
                  !.cancelledAt = Some(now),
                  !.cancelledBy = booking.patientId,
                  !.cancellationReason =
                      IF Truthy(body.cancellationReason)
                      THEN body.cancellationReason ELSE @]
         ELSE [booking EXCEPT !.status = body.status]
    ELSE booking

\* the row booking.update(allowedUpdates) of updateBooking leaves
UpdatedBooking(booking, user, body, now) ==
    IF body.status # Undefined /\ body.status \in StatusEnum
    THEN IF body.status = "cancelled"
         THEN [booking EXCEPT
                  !.status = body.status,
                  !.cancelledAt = Some(now),
                  !.cancelledBy = user,
                  !.cancellationReason =
                      IF Truthy(body.cancellationReason)
                      THEN body.cancellationReason ELSE @]
         ELSE [booking EXCEPT !.status = body.status]
    ELSE booking

\* the row booking.save() of cancelBooking leaves
\* a cancellation that stamps the booking and leaves its status
CancelledBooking_StampOnly(booking, user, body, now) ==
    [booking EXCEPT
        !.cancelledAt = Some(now),
        !.cancelledBy = user]

CancelledBooking(booking, user, body, now) ==
    [booking EXCEPT
        !.status = "cancelled",
        !.cancelledAt = Some(now),
        !.cancelledBy = user,
        !.cancellationReason =
            IF Truthy(body.cancellationReason)
            THEN body.cancellationReason ELSE @]

\* Session.findOne({ where: { bookingId } })
SessionOfBooking(ses, bookingId) ==
    {i \in 1..Len(ses) : ses[i].bookingId = bookingId}

\* the row Session.create inserts
NewSession(bookingId, booking, now) ==
    [bookingId |-> bookingId,
     patientId |-> booking.patientId,
     therapistId |-> booking.therapistId,
     startTime |-> now,
     endTime |-> None,
     actualDuration |-> None,
     therapistNotes |-> None,
     isCompleted |-> FALSE,
     patientRating |-> None]

\* yesterday = new Date(); setDate(getDate() - 1); setHours(23, 59, 59, 999)
YesterdayEnd(now) == SetHours(now - MsPerDay, 23, 59, 59, 999)

\* a where clause that stops one day short
NoShowMatch_DayEarly(booking, now) ==
    /\ booking.sessionDate < YesterdayEnd(now) - MsPerDay
    /\ booking.status \in ActiveStatuses

\* a where clause without the status filter
NoShowMatch_AnyStatus(booking, now) ==
    booking.sessionDate < YesterdayEnd(now)

\* the where clause of markNoShows
NoShowMatch(booking, now) ==
    /\ booking.sessionDate < YesterdayEnd(now)
    /\ booking.status \in ActiveStatuses

\* a bulk update that reaches only the first matching row
SweptBookings_FirstOnly(bks, now) ==
    [i \in 1..Len(bks) |->
        IF /\ NoShowMatch(bks[i], now)
           /\ \A j \in 1..(i - 1) : ~NoShowMatch(bks[j], now)
        THEN [bks[i] EXCEPT !.status = "no-show"]
        ELSE bks[i]]

\* Booking.update({ status: 'no-show' }, { where }) of markNoShows
SweptBookings(bks, now) ==
    [i \in 1..Len(bks) |->
        IF NoShowMatch(bks[i], now)
        THEN [bks[i] EXCEPT !.status = "no-show"]
        ELSE bks[i]]

(***************************************************************************)
(* Availability query                                                      *)
(***************************************************************************)
\* const slotDuration = 60
slotDuration == 60

\* `${hours.toString().padStart(2, '0')}:${minutes.toString().padStart(2, '0')}`
TimeString(time) ==
    PadStart(ToString(time \div 60), 2, "0") \o <<":">>
        \o PadStart(ToString(time % 60), 2, "0")

\* Booking.findAll of getTherapistAvailability, attributes sessionTime, duration
ExistingBookings(bks, id, requestedDate) ==
    {[sessionTime |-> bks[i].sessionTime, duration |-> bks[i].duration] :
        i \in {k \in 1..Len(bks) :
                 /\ bks[k].therapistId = id
                 /\ Between(bks[k].sessionDate,
                            SetHours(requestedDate, 0, 0, 0, 0),
                            SetHours(requestedDate, 23, 59, 59, 999))
                 /\ bks[k].status \in ActiveStatuses}}

\* the overlap test with the booked interval closed at its end
SlotOverlaps_ClosedEnd(time, bookedStart, bookedEnd) ==
    time <= bookedEnd /\ time + slotDuration > bookedStart

\* time < bookedEnd && time + slotDuration > bookedStart
SlotOverlaps(time, bookedStart, bookedEnd) ==
    time < bookedEnd /\ time + slotDuration > bookedStart

\* existingBookings.some(booking => ...)
IsBooked(time, existingBookings) ==
    \E booking \in existingBookings :
        LET bookedStart == ParseMinutes(booking.sessionTime)
            bookedEnd == bookedStart + booking.duration
        IN SlotOverlaps(time, bookedStart, bookedEnd)

\* the loop test stopping one slot early
SlotFits_Strict(time, endTime) == time + slotDuration < endTime

\* the loop test: time + slotDuration <= endTime
SlotFits(time, endTime) == time + slotDuration <= endTime

\* for (let time = startTime; ...; time += slotDuration) { ... push ... }
RECURSIVE SlotLoop(_, _, _)
SlotLoop(time, endTime, existingBookings) ==
    IF SlotFits(time, endTime)
    THEN (IF IsBooked(time, existingBookings) THEN <<>> ELSE <<TimeString(time)>>)
             \o SlotLoop(time + slotDuration, endTime, existingBookings)
    ELSE <<>>

\* availableSlots of getTherapistAvailability
AvailableSlots(availability, existingBookings) ==
    SlotLoop(ParseMinutes(availability.start), ParseMinutes(availability.end),
             existingBookings)

\* the response of getTherapistAvailability
AvailabilityResponse(ths, bks, id, date) ==
    LET therapist == TherapistFindByPk(ths, id)
        requestedDate == NewDate(date)
        dayOfWeek == DayOfWeek(requestedDate)
        availability == AvailabilityOf(therapist[1], dayOfWeek)
    IN IF therapist = None
       THEN [op |-> "getTherapistAvailability", status |-> 404,
             message |-> "Therapist not found", data |-> None]
       ELSE IF NotAvailable(availability)
       THEN [op |-> "getTherapistAvailability", status |-> 200,
             message |-> "Therapist is not available on this day",
             data |-> Some([available |-> FALSE])]
       ELSE [op |-> "getTherapistAvailability", status |-> 200, message |-> "",
             data |-> Some([available |-> TRUE, date |-> date,
                            dayOfWeek |-> dayOfWeek,
                            availableSlots |->
                                AvailableSlots(availability[1],
                                    ExistingBookings(bks, id, requestedDate)),
                            workingHours |->
                                [start |-> availability[1].start,
                                 end |-> availability[1].end]])]

(***************************************************************************)
(* Requests handled one at a time                                          *)
(***************************************************************************)
Response(op, status, message) ==
    [op |-> op, status |-> status, message |-> message, data |-> None]

\* inputs of the requests
Patients == {"p1"}
Owners == {"u1"}
SlotInputs ==
    [sessionTime : {T0900}, duration : {None}]
        \cup [sessionTime : {T0930}, duration : {Some(30)}]
CreateBody(therapistId, sessionDate, slot) ==
    [therapistId |-> therapistId, sessionDate |-> sessionDate,
     sessionTime |-> slot.sessionTime, duration |-> slot.duration]
CreateBodies ==
    {CreateBody(t, d, s) : t \in {"t1"}, d \in 1..MaxDay, s \in SlotInputs}
UpdateBodies ==
    [status : StatusEnum \cup {Undefined}, cancellationReason : {Undefined}]
CancelBodies == [cancellationReason : {Undefined}]
BookingIds == 1..MaxBookings

\* one call of the email service: the email and whether the call threw
EmailAttempt(kind, bookingId, thrown) ==
    [kind |-> kind, bookingId |-> bookingId, thrown |-> thrown]

\* emailService.sendBookingConfirmation inside try/catch
SendBookingConfirmation(bookingId) ==
    {<<EmailAttempt("bookingConfirmation", bookingId, thrown)>> :
        thrown \in BOOLEAN}

\* emailService.sendBookingStatusUpdate inside try/catch
SendBookingStatusUpdate(bookingId) ==
    {<<EmailAttempt("bookingStatusUpdate", bookingId, thrown)>> :
        thrown \in BOOLEAN}

\* sendBookingCancellation returns sendBookingStatusUpdate(booking)
SendBookingCancellation(bookingId) == SendBookingStatusUpdate(bookingId)

\* the test made after booking.update(allowedUpdates) has set the fields of
\* the instance: booking is the updated instance
StatusChanged(status, booking) == Truthy(status) /\ status # booking.status

\* a create handler whose email call is outside try/catch: a throw goes to
\* next(error) after the row was inserted
CreateBooking_EmailUncaught(user, body) ==
    LET rejected == CreateBookingChecks(therapists, bookings, body)
    IN /\ Role[user] \in {"patient", "admin"}
       /\ IF rejected # None
          THEN /\ resp' = Response("createBooking", rejected[1].status,
                                   rejected[1].message)
               /\ mail' = <<>>
               /\ UNCHANGED bookings
          ELSE /\ Len(bookings) < MaxBookings
               /\ bookings' = BookingCreate(bookings, NewBooking(user, body))
               /\ mail' \in SendBookingConfirmation(Len(bookings'))
               /\ resp' = IF mail'[1].thrown
                          THEN Response("createBooking", 500, "error")
                          ELSE Response("createBooking", 201,
                                        "Booking created successfully")
       /\ UNCHANGED <<therapists, sessions, today, reqs, reminders>>

\* POST /api/bookings
CreateBooking(user, body) ==
    LET rejected == CreateBookingChecks(therapists, bookings, body)
    IN /\ Role[user] \in {"patient", "admin"}
       /\ IF rejected # None
          THEN /\ resp' = Response("createBooking", rejected[1].status,
                                   rejected[1].message)
               /\ mail' = <<>>
               /\ UNCHANGED bookings
          ELSE /\ Len(bookings) < MaxBookings
               /\ bookings' = BookingCreate(bookings, NewBooking(user, body))
               /\ mail' \in SendBookingConfirmation(Len(bookings'))
               /\ resp' = Response("createBooking", 201,
                                   "Booking created successfully")
       /\ UNCHANGED <<therapists, sessions, today, reqs, reminders>>

\* PUT /api/bookings/:id
UpdateBooking(user, id, body) ==
    /\ IF ~ValidStatusField(body.status)
       THEN /\ resp' = Response("updateBooking", 400, "validation")
            /\ mail' = <<>>
            /\ UNCHANGED bookings
       ELSE IF id \notin 1..Len(bookings)
       THEN /\ resp' = Response("updateBooking", 404, "Booking not found")
            /\ mail' = <<>>
            /\ UNCHANGED bookings
       ELSE IF NotAuthorized(therapists, bookings[id], user)
       THEN /\ resp' = Response("updateBooking", 403,
                                "Not authorized to update this booking")
            /\ mail' = <<>>
            /\ UNCHANGED bookings
       ELSE /\ bookings' = [bookings EXCEPT
                   ![id] = UpdatedBooking(@, user, body, Now(today))]
            /\ IF StatusChanged(body.status, bookings'[id])
               THEN mail' \in SendBookingStatusUpdate(id)
               ELSE mail' = <<>>
            /\ resp' = Response("updateBooking", 200,
                                "Booking updated successfully")
    /\ UNCHANGED <<therapists, sessions, today, reqs, reminders>>

\* a cancel handler without the checks on the current status
CancelBooking_NoStatusCheck(user, id, body) ==
    /\ IF id \notin 1..Len(bookings)
       THEN /\ resp' = Response("cancelBooking", 404, "Booking not found")
            /\ mail' = <<>>
            /\ UNCHANGED bookings
       ELSE IF NotAuthorized(therapists, bookings[id], user)
       THEN /\ resp' = Response("cancelBooking", 403,
                                "Not authorized to cancel this booking")
            /\ mail' = <<>>
            /\ UNCHANGED bookings
       ELSE /\ bookings' = [bookings EXCEPT
                   ![id] = CancelledBooking(@, user, body, Now(today))]
            /\ mail' \in SendBookingCancellation(id)
            /\ resp' = Response("cancelBooking", 200,
                                "Booking cancelled successfully")
    /\ UNCHANGED <<therapists, sessions, today, reqs, reminders>>

\* DELETE /api/bookings/:id
CancelBooking(user, id, body) ==
    /\ IF id \notin 1..Len(bookings)
       THEN /\ resp' = Response("cancelBooking", 404, "Booking not found")
            /\ mail' = <<>>
            /\ UNCHANGED bookings
       ELSE IF NotAuthorized(therapists, bookings[id], user)
       THEN /\ resp' = Response("cancelBooking", 403,
                                "Not authorized to cancel this booking")
            /\ mail' = <<>>
            /\ UNCHANGED bookings
       ELSE IF bookings[id].status = "cancelled"
       THEN /\ resp' = Response("cancelBooking", 400,
                                "Booking is already cancelled")
            /\ mail' = <<>>
            /\ UNCHANGED bookings
       ELSE IF bookings[id].status = "completed"
       THEN /\ resp' = Response("cancelBooking", 400,
                                "Cannot cancel a completed booking")
            /\ mail' = <<>>
            /\ UNCHANGED bookings
       ELSE /\ bookings' = [bookings EXCEPT
                   ![id] = CancelledBooking(@, user, body, Now(today))]
            /\ mail' \in SendBookingCancellation(id)
            /\ resp' = Response("cancelBooking", 200,
                                "Booking cancelled successfully")
    /\ UNCHANGED <<therapists, sessions, today, reqs, reminders>>

\* POST /api/sessions
CreateSession(user, bookingId) ==
    /\ Role[user] \in {"therapist", "admin"}
    /\ IF bookingId \notin 1..Len(bookings)
       THEN /\ resp' = Response("createSession", 404, "Booking not found")
            /\ UNCHANGED <<bookings, sessions>>
       ELSE IF \A t \in TherapistOfUser(therapists, user) :
                   bookings[bookingId].therapistId # t
       THEN /\ resp' = Response("createSession", 403,
                   "Only the assigned therapist can create a session")
            /\ UNCHANGED <<bookings, sessions>>
       ELSE IF bookings[bookingId].status # "confirmed"
       THEN /\ resp' = Response("createSession", 400,
                   "Booking must be confirmed to create a session")
            /\ UNCHANGED <<bookings, sessions>>
       ELSE IF SessionOfBooking(sessions, bookingId) # {}
       THEN /\ resp' = Response("createSession", 400,
                   "Session already exists for this booking")
            /\ UNCHANGED <<bookings, sessions>>
       ELSE /\ sessions' = Append(sessions,
                               NewSession(bookingId, bookings[bookingId],
                                          Now(today)))
            /\ bookings' = [bookings EXCEPT ![bookingId].status = "completed"]
            /\ resp' = Response("createSession", 201,
                                "Session created successfully")
    /\ UNCHANGED <<therapists, today, reqs, reminders, mail>>

\* the daily no-show job
MarkNoShows ==
    /\ bookings' = SweptBookings(bookings, Now(today))
    /\ resp' = Response("markNoShows", 0, "")
    /\ UNCHANGED <<therapists, sessions, today, reqs, reminders, mail>>

\* midnight passes
Tick ==
    /\ today < MaxDay
    /\ today' = today + 1
    /\ UNCHANGED <<therapists, bookings, sessions, resp, reqs, reminders, mail>>

Init ==
    /\ therapists = TherapistRows
    /\ bookings = <<>>
    /\ sessions = <<>>
    /\ today = 1
    /\ resp = Response("none", 0, "")
    /\ reqs = <<>>
    /\ reminders = <<>>
    /\ mail = <<>>

Next ==
    \/ \E user \in Patients, body \in CreateBodies : CreateBooking(user, body)
    \/ \E user \in Patients, id \in BookingIds, body \in UpdateBodies :
          UpdateBooking(user, id, body)
    \/ \E user \in Patients, id \in BookingIds, body \in CancelBodies :
          CancelBooking(user, id, body)
    \/ \E user \in Owners, id \in BookingIds : CreateSession(user, id)
    \/ MarkNoShows
    \/ Tick

Spec == Init /\ [][Next]_vars

(***************************************************************************)
(* Booking creation and the availability query over every kind of request  *)
(***************************************************************************)
\* a query that holds the first free slot by inserting a pending booking
GetTherapistAvailability_Holding(id, date) ==
    /\ resp' = AvailabilityResponse(therapists, bookings, id, date)
    /\ bookings' =
           IF resp'.status = 200 /\ resp'.data[1].available
                                 /\ resp'.data[1].availableSlots # <<>>
           THEN Append(bookings,
                       NewBooking("p1",
                           [therapistId |-> id, sessionDate |-> date,
                            sessionTime |-> Head(resp'.data[1].availableSlots),
                            duration |-> None]))
           ELSE bookings
    /\ UNCHANGED <<therapists, sessions, today, reqs, reminders, mail>>

\* GET /api/therapists/:id/availability?date=
GetTherapistAvailability(id, date) ==
    /\ resp' = AvailabilityResponse(therapists, bookings, id, date)
    /\ UNCHANGED <<therapists, bookings, sessions, today, reqs, reminders, mail>>

\* day 0 is a Sunday, day 1 a Monday, day 2 a Tuesday
RequestDays == {0, 1, 2}
AllCreateBodies ==
    {CreateBody(t, d, s) : t \in TherapistIds, d \in RequestDays, s \in SlotInputs}

\* request bodies that also carry a status field
WithStatus(body, status) ==
    [therapistId |-> body.therapistId, sessionDate |-> body.sessionDate,
     sessionTime |-> body.sessionTime, duration |-> body.duration,
     status |-> status]
StatusCreateBodies ==
    {WithStatus(CreateBody("t1", 1, s), st) : s \in SlotInputs, st \in StatusEnum}

\* creating and cancelling bookings
NextCreate ==
    \/ \E user \in Patients, body \in AllCreateBodies : CreateBooking(user, body)
    \/ \E user \in Patients, body \in StatusCreateBodies :
          CreateBooking(user, body)
    \/ \E user \in Patients, id \in BookingIds, body \in CancelBodies :
          CancelBooking(user, id, body)

SpecCreate == Init /\ [][NextCreate]_vars

\* creating bookings and asking for availability
NextResolve ==
    \/ \E user \in Patients, body \in AllCreateBodies : CreateBooking(user, body)
    \/ \E id \in TherapistIds, date \in RequestDays :
          GetTherapistAvailability(id, date)

SpecResolve == Init /\ [][NextResolve]_vars

(***************************************************************************)
(* The slot generator over stored schedules and booking tables             *)
(***************************************************************************)
T1630 == <<"1", "6", ":", "3", "0">>

\* working-hours windows a therapist may have stored
Windows ==
    {[start |-> T0900, end |-> T1700], [start |-> T0900, end |-> T1300],
     [start |-> T0930, end |-> T1145], [start |-> T1000, end |-> T1100],
     [start |-> T1015, end |-> T1100], [start |-> T1100, end |-> T1000]}

\* a weekly schedule with the same window on every day
WindowSchedule(w) ==
    [d \in {"sunday", "monday", "tuesday", "wednesday", "thursday", "friday",
            "saturday"} |->
        [start |-> w.start, end |-> w.end, available |-> TRUE]]

\* a row of the bookings table as createBooking and the status changes of
\* updateBooking, cancelBooking, createSession and the sweep leave it
StoredBooking(therapistId, day, sessionTime, duration, status) ==
    [NewBooking("p1", [therapistId |-> therapistId, sessionDate |-> day,
                       sessionTime |-> sessionTime, duration |-> Some(duration)])
        EXCEPT !.status = status,
               !.cancelledAt = IF status = "cancelled" THEN Some(Now(day)) ELSE None,
               !.cancelledBy = IF status = "cancelled" THEN "p1" ELSE Null]

BookingSamples ==
    {StoredBooking("t1", 1, T1000, 60, st) : st \in StatusEnum}
        \cup {StoredBooking("t1", 1, T0930, 30, "pending"),
              StoredBooking("t1", 1, T0930, 180, "confirmed"),
              StoredBooking("t1", 1, T1630, 60, "pending"),
              StoredBooking("t2", 1, T1000, 60, "pending"),
              StoredBooking("t1", 2, T1000, 60, "confirmed")}

\* the booking tables of up to MaxBookings of these rows
BookingTables == UNION {[1..n -> BookingSamples] : n \in 0..MaxBookings}

InitAvail ==
    /\ therapists \in
          {[TherapistRows EXCEPT !["t1"].availability = WindowSchedule(w)] :
              w \in Windows}
    /\ bookings \in BookingTables
    /\ sessions = <<>>
    /\ today = 1
    /\ resp = Response("none", 0, "")
    /\ reqs = <<>>
    /\ reminders = <<>>
    /\ mail = <<>>

QueryIds == {"t1", "t2"}
QueryDays == {1, 2}

NextAvail ==
    \E id \in QueryIds, date \in QueryDays : GetTherapistAvailability(id, date)

SpecAvail == InitAvail /\ [][NextAvail]_vars

(***************************************************************************)
(* createBooking requests whose awaits interleave                          *)
(***************************************************************************)
NumRequests == 2

IdleRequest ==
    [pc |-> "idle", user |-> Null, body |-> None, seen |-> -1, bookingId |-> 0,
     status |-> 0, message |-> ""]

RaceBodies ==
    {CreateBody(t, 1, s) : t \in {"t1", "t3"}, s \in SlotInputs}

\* the request arrives and the handler runs up to await Therapist.findByPk
ReceiveCreateBooking(p, user, body) ==
    /\ reqs[p].pc = "idle"
    /\ Role[user] \in {"patient", "admin"}
    /\ reqs' = [reqs EXCEPT ![p] = [@ EXCEPT !.pc = "findTherapist",
                                             !.user = user,
                                             !.body = Some(body)]]
    /\ UNCHANGED <<therapists, bookings, sessions, today, resp, reminders, mail>>

\* Therapist.findByPk resolves; the handler runs up to await Booking.findOne
FindTherapistStep(p) ==
    LET rejected == TherapistChecks(therapists, reqs[p].body[1])
    IN /\ reqs[p].pc = "findTherapist"
       /\ IF rejected # None
          THEN /\ reqs' = [reqs EXCEPT ![p] =
                              [@ EXCEPT !.pc = "done",
                                        !.status = rejected[1].status,
                                        !.message = rejected[1].message]]
               /\ resp' = Response("createBooking", rejected[1].status,
                                   rejected[1].message)
          ELSE /\ reqs' = [reqs EXCEPT ![p].pc = "findConflict"]
               /\ UNCHANGED resp
       /\ UNCHANGED <<therapists, bookings, sessions, today, reminders, mail>>

\* Booking.findOne resolves; the handler runs up to await Booking.create
FindConflictStep(p) ==
    LET rejected == ConflictCheck(bookings, reqs[p].body[1])
    IN /\ reqs[p].pc = "findConflict"
       /\ IF rejected # None
          THEN /\ reqs' = [reqs EXCEPT ![p] =
                              [@ EXCEPT !.pc = "done",
                                        !.seen = Len(bookings),
                                        !.status = rejected[1].status,
                                        !.message = rejected[1].message]]
               /\ resp' = Response("createBooking", rejected[1].status,
                                   rejected[1].message)
          ELSE /\ reqs' = [reqs EXCEPT ![p] =
                              [@ EXCEPT !.pc = "create",
                                        !.seen = Len(bookings)]]
               /\ UNCHANGED resp
       /\ UNCHANGED <<therapists, bookings, sessions, today, reminders, mail>>

\* Booking.create resolves; the handler answers 201
CreateStep(p) ==
    /\ reqs[p].pc = "create"
    /\ Len(bookings) < MaxBookings
    /\ bookings' = BookingCreate(bookings,
                                 NewBooking(reqs[p].user, reqs[p].body[1]))
    /\ reqs' = [reqs EXCEPT ![p] =
                   [@ EXCEPT !.pc = "done",
                             !.bookingId = Len(bookings'),
                             !.status = 201,
                             !.message = "Booking created successfully"]]
    /\ mail' \in SendBookingConfirmation(Len(bookings'))
    /\ resp' = Response("createBooking", 201, "Booking created successfully")
    /\ UNCHANGED <<therapists, sessions, today, reminders>>

InitRace ==
    /\ therapists = TherapistRows
    /\ bookings = <<>>
    /\ sessions = <<>>
    /\ today = 1
    /\ resp = Response("none", 0, "")
    /\ reqs = [p \in 1..NumRequests |-> IdleRequest]
    /\ reminders = <<>>
    /\ mail = <<>>

NextRace ==
    \/ \E p \in 1..NumRequests, user \in Patients, body \in RaceBodies :
          ReceiveCreateBooking(p, user, body)
    \/ \E p \in 1..NumRequests : FindTherapistStep(p)
    \/ \E p \in 1..NumRequests : FindConflictStep(p)
    \/ \E p \in 1..NumRequests : CreateStep(p)

SpecRace == InitRace /\ [][NextRace]_vars

(***************************************************************************)
(* Updates and cancellations over stored booking tables                    *)
(***************************************************************************)
\* the patient of the stored rows, another patient and the user of therapist t1
StoredUsers == {"p1", "p2", "u1"}
ReasonInputs == {Undefined, "", "schedule change"}
StoredUpdateBodies ==
    [status : {Undefined, "cancelled"}, cancellationReason : ReasonInputs]
StoredCancelBodies == [cancellationReason : ReasonInputs]

\* one booking of t1 on day 1 in each status
StatusSamples == {StoredBooking("t1", 1, T1000, 60, st) : st \in StatusEnum}
StatusTables == UNION {[1..n -> StatusSamples] : n \in 0..MaxBookings}

InitCancel ==
    /\ therapists = TherapistRows
    /\ bookings \in StatusTables
    /\ sessions = <<>>
    /\ today = MaxDay
    /\ resp = Response("none", 0, "")
    /\ reqs = <<>>
    /\ reminders = <<>>
    /\ mail = <<>>

NextCancel ==
    \/ \E user \in StoredUsers, id \in BookingIds, body \in StoredUpdateBodies :
          UpdateBooking(user, id, body)
    \/ \E user \in StoredUsers, id \in BookingIds, body \in StoredCancelBodies :
          CancelBooking(user, id, body)

SpecCancel == InitCancel /\ [][NextCancel]_vars

(***************************************************************************)
(* The no-show job over stored booking tables                              *)
(***************************************************************************)
\* bookings of t1 in each status dated day 1, and active ones dated day 2
SweepSamples ==
    StatusSamples \cup {StoredBooking("t1", 2, T1000, 60, "pending"),
                        StoredBooking("t1", 2, T0900, 60, "confirmed")}
SweepTables == UNION {[1..n -> SweepSamples] : n \in 0..MaxBookings}

InitSweep ==
    /\ therapists = TherapistRows
    /\ bookings \in SweepTables
    /\ sessions = <<>>
    /\ today = 1
    /\ resp = Response("none", 0, "")
    /\ reqs = <<>>
    /\ reminders = <<>>
    /\ mail = <<>>

\* midnight passes, up to the day after the last booking day
TickSweep ==
    /\ today < MaxDay + 1
    /\ today' = today + 1
    /\ UNCHANGED <<therapists, bookings, sessions, resp, reqs, reminders, mail>>

NextSweep == MarkNoShows \/ TickSweep

SpecSweep == InitSweep /\ [][NextSweep]_vars

(***************************************************************************)
(* The reminder job                                                        *)
(***************************************************************************)
\* a where clause without the reminderSent filter
ReminderMatch_NoFlag(booking, now) ==
    /\ Between(booking.sessionDate,
               SetHours(now + MsPerDay, 0, 0, 0, 0),
               SetHours(now + MsPerDay, 23, 59, 59, 999))
    /\ booking.status \in ActiveStatuses

\* the where clause of sendSessionReminders: dated tomorrow, active, not yet
\* reminded
ReminderMatch(booking, now) ==
    /\ Between(booking.sessionDate,
               SetHours(now + MsPerDay, 0, 0, 0, 0),
               SetHours(now + MsPerDay, 23, 59, 59, 999))
    /\ booking.status \in ActiveStatuses
    /\ booking.reminderSent = FALSE

\* the bookings Booking.findAll returns, in id order
RECURSIVE ToRemind(_, _, _)
ToRemind(bks, now, i) ==
    IF i > Len(bks) THEN <<>>
    ELSE (IF ReminderMatch(bks[i], now) THEN <<i>> ELSE <<>>)
             \o ToRemind(bks, now, i + 1)

\* a run that ends at the first send that throws
RECURSIVE SentIn_StopAtFailure(_, _)
SentIn_StopAtFailure(selected, failed) ==
    IF selected = <<>> THEN <<>>
    ELSE IF Head(selected) \in failed THEN <<>>
    ELSE <<Head(selected)>> \o SentIn_StopAtFailure(Tail(selected), failed)

\* the emails of one run: those of the selected bookings whose send succeeds
RECURSIVE SentIn(_, _)
SentIn(selected, failed) ==
    IF selected = <<>> THEN <<>>
    ELSE (IF Head(selected) \in failed THEN <<>> ELSE <<Head(selected)>>)
             \o SentIn(Tail(selected), failed)

\* one run of the daily reminder job; failed holds the bookings whose
\* emailService.sendSessionReminder throws
SendSessionReminders(failed) ==
    LET selected == ToRemind(bookings, Now(today), 1)
        sent == SentIn(selected, failed)
    IN /\ reminders' = reminders \o sent
       /\ bookings' = [i \in 1..Len(bookings) |->
                         IF \E k \in 1..Len(sent) : sent[k] = i
                         THEN [bookings[i] EXCEPT !.reminderSent = TRUE]
                         ELSE bookings[i]]
       /\ resp' = Response("sendSessionReminders", 0, "")
       /\ UNCHANGED <<therapists, sessions, today, reqs, mail>>

\* active bookings of t1 on days 2 and 3, not yet reminded
RemindSamples ==
    {StoredBooking("t1", 2, T0900, 60, "confirmed"),
     StoredBooking("t1", 3, T1000, 60, "pending")}
RemindTables == UNION {[1..n -> RemindSamples] : n \in 0..MaxBookings}
RemindUpdateBodies ==
    [status : {"cancelled", "pending"}, cancellationReason : {Undefined}]

InitRemind ==
    /\ therapists = TherapistRows
    /\ bookings \in RemindTables
    /\ sessions = <<>>
    /\ today = 1
    /\ resp = Response("none", 0, "")
    /\ reqs = <<>>
    /\ reminders = <<>>
    /\ mail = <<>>

NextRemind ==
    \/ \E failed \in SUBSET BookingIds : SendSessionReminders(failed)
    \/ \E user \in Patients, id \in BookingIds, body \in RemindUpdateBodies :
          UpdateBooking(user, id, body)
    \/ Tick

SpecRemind == InitRemind /\ [][NextRemind]_vars

(***************************************************************************)
(* Therapist profiles and sessions                                         *)
(***************************************************************************)
\* a profile update that writes the availability of every therapist row
UpdatedTherapists_AllRows(ths, id, body) ==
    IF body.availability = None THEN ths
    ELSE [t \in DOMAIN ths |->
             [ths[t] EXCEPT !.availability = body.availability[1]]]

\* therapist.update(allowedUpdates): undefined fields are removed first
UpdatedTherapists(ths, id, body) ==
    IF body.availability = None THEN ths
    ELSE [ths EXCEPT ![id].availability = body.availability[1]]

\* PUT /api/therapists/profile, behind authorize('therapist')
UpdateTherapistProfile(user, body) ==
    /\ IF Role[user] # "therapist"
       THEN /\ resp' = Response("updateTherapistProfile", 403, "authorize")
            /\ UNCHANGED therapists
       ELSE IF TherapistOfUser(therapists, user) = {}
       THEN /\ resp' = Response("updateTherapistProfile", 404,
                                "Therapist profile not found")
            /\ UNCHANGED therapists
       ELSE /\ therapists' =
                   UpdatedTherapists(therapists,
                       CHOOSE t \in TherapistOfUser(therapists, user) : TRUE,
                       body)
            /\ resp' = Response("updateTherapistProfile", 200,
                                "Therapist profile updated successfully")
    /\ UNCHANGED <<bookings, sessions, today, reqs, reminders, mail>>

\* Math.round(ms / 60000)
RoundMinutes(ms) == (ms + 30000) \div 60000

\* the row session.save() writes in completeSession; None when the model's
\* validation of actualDuration (min: 0) rejects it
CompletedSession(session, endTime, now) ==
    LET end == IF endTime # None THEN NewDate(endTime[1]) ELSE now
        actualDuration == RoundMinutes(end - session.startTime)
    IN IF actualDuration < 0 THEN None
       ELSE Some([session EXCEPT !.endTime = Some(end),
                                 !.actualDuration = Some(actualDuration),
                                 !.isCompleted = TRUE])

\* a complete handler without the test of isCompleted
CompleteSessionAt_NoCompletedCheck(user, id, endTime) ==
    /\ Role[user] \in {"therapist", "admin"}
    /\ IF id \notin 1..Len(sessions)
       THEN /\ resp' = Response("completeSession", 404, "Session not found")
            /\ UNCHANGED sessions
       ELSE IF \A t \in TherapistOfUser(therapists, user) :
                   sessions[id].therapistId # t
       THEN /\ resp' = Response("completeSession", 403,
                   "Only the assigned therapist can complete a session")
            /\ UNCHANGED sessions
       ELSE IF CompletedSession(sessions[id], endTime, Now(today)) = None
       THEN /\ resp' = Response("completeSession", 500, "error")
            /\ UNCHANGED sessions
       ELSE /\ sessions' = [sessions EXCEPT ![id] =
                   CompletedSession(@, endTime, Now(today))[1]]
            /\ resp' = Response("completeSession", 200,
                                "Session completed successfully")
    /\ UNCHANGED <<therapists, bookings, today, reqs, reminders, mail>>

\* PATCH /api/sessions/:id/complete with endTime in the body
CompleteSessionAt(user, id, endTime) ==
    /\ Role[user] \in {"therapist", "admin"}
    /\ IF id \notin 1..Len(sessions)
       THEN /\ resp' = Response("completeSession", 404, "Session not found")
            /\ UNCHANGED sessions
       ELSE IF \A t \in TherapistOfUser(therapists, user) :
                   sessions[id].therapistId # t
       THEN /\ resp' = Response("completeSession", 403,
                   "Only the assigned therapist can complete a session")
            /\ UNCHANGED sessions
       ELSE IF sessions[id].isCompleted
       THEN /\ resp' = Response("completeSession", 400,
                                "Session is already completed")
            /\ UNCHANGED sessions
       ELSE IF CompletedSession(sessions[id], endTime, Now(today)) = None
       THEN /\ resp' = Response("completeSession", 500, "error")
            /\ UNCHANGED sessions
       ELSE /\ sessions' = [sessions EXCEPT ![id] =
                   CompletedSession(@, endTime, Now(today))[1]]
            /\ resp' = Response("completeSession", 200,
                                "Session completed successfully")
    /\ UNCHANGED <<therapists, bookings, today, reqs, reminders, mail>>

\* PATCH /api/sessions/:id/complete with an empty body
CompleteSession(user, id) == CompleteSessionAt(user, id, None)

\* PUT /api/sessions/:id
UpdateSession(user, id, therapistNotes) ==
    /\ Role[user] \in {"therapist", "admin"}
    /\ IF id \notin 1..Len(sessions)
       THEN /\ resp' = Response("updateSession", 404, "Session not found")
            /\ UNCHANGED sessions
       ELSE IF \A t \in TherapistOfUser(therapists, user) :
                   sessions[id].therapistId # t
       THEN /\ resp' = Response("updateSession", 403,
                   "Only the assigned therapist can update session notes")
            /\ UNCHANGED sessions
       ELSE /\ sessions' =
                   IF therapistNotes = Undefined THEN sessions
                   ELSE [sessions EXCEPT
                            ![id].therapistNotes = Some(therapistNotes)]
            /\ resp' = Response("updateSession", 200,
                                "Session updated successfully")
    /\ UNCHANGED <<therapists, bookings, today, reqs, reminders, mail>>

\* the sum of the patient ratings of the rated sessions with index up to n
RECURSIVE TotalRating(_, _, _)
TotalRating(ses, therapistId, n) ==
    IF n = 0 THEN 0
    ELSE TotalRating(ses, therapistId, n - 1)
             + (IF ses[n].therapistId = therapistId /\ ses[n].patientRating # None
                THEN ses[n].patientRating[1] ELSE 0)

\* the sessions of the therapist that carry a patient rating
RatedSessions(ses, therapistId) ==
    {i \in 1..Len(ses) :
        ses[i].therapistId = therapistId /\ ses[i].patientRating # None}

\* totalRating / allSessions.length as the DECIMAL(3, 2) column stores it:
\* in hundredths, rounded to the nearest
AverageRating(totalRating, length) ==
    (200 * totalRating + length) \div (2 * length)

\* the therapists table after therapist.save() in addPatientFeedback
RatedTherapists_CountAll(ths, ses, therapistId) ==
    [ths EXCEPT
        ![therapistId].rating =
            AverageRating(TotalRating(ses, therapistId, Len(ses)),
                          Cardinality(RatedSessions(ses, therapistId))),
        ![therapistId].totalReviews =
            Cardinality({i \in 1..Len(ses) : ses[i].patientRating # None})]

RatedTherapists(ths, ses, therapistId) ==
    [ths EXCEPT
        ![therapistId].rating =
            AverageRating(TotalRating(ses, therapistId, Len(ses)),
                          Cardinality(RatedSessions(ses, therapistId))),
        ![therapistId].totalReviews =
            Cardinality(RatedSessions(ses, therapistId))]

\* POST /api/sessions/:id/feedback
AddPatientFeedback(user, id, patientRating) ==
    /\ Role[user] \in {"patient", "admin"}
    /\ IF patientRating < 1 \/ patientRating > 5
       THEN /\ resp' = Response("addPatientFeedback", 400,
                   "Patient rating is required and must be between 1 and 5")
            /\ UNCHANGED <<sessions, therapists>>
       ELSE IF id \notin 1..Len(sessions)
       THEN /\ resp' = Response("addPatientFeedback", 404, "Session not found")
            /\ UNCHANGED <<sessions, therapists>>
       ELSE IF sessions[id].patientId # user
       THEN /\ resp' = Response("addPatientFeedback", 403,
                                "Only the patient can add feedback")
            /\ UNCHANGED <<sessions, therapists>>
       ELSE IF ~sessions[id].isCompleted
       THEN /\ resp' = Response("addPatientFeedback", 400,
                   "Session must be completed before adding feedback")
            /\ UNCHANGED <<sessions, therapists>>
       ELSE /\ sessions' = [sessions EXCEPT
                   ![id].patientRating = Some(patientRating)]
            /\ therapists' = RatedTherapists(therapists, sessions',
                                             sessions[id].therapistId)
            /\ resp' = Response("addPatientFeedback", 200,
                                "Feedback added successfully")
    /\ UNCHANGED <<bookings, today, reqs, reminders, mail>>

\* the requests and jobs that run while therapists edit their profiles
ProfileUsers == {"u1", "u2", "admin"}
ProfileBodies == [availability : {None, Some(WeekendAvailability)}]
ProfileCreateBodies ==
    {CreateBody("t1", 1, [sessionTime |-> T0900, duration |-> None])}
ProfileUpdateBodies ==
    [status : {"confirmed"}, cancellationReason : {Undefined}]
RatingInputs == {4}

\* no booking yet, on the day after the day the requests book
InitProfile ==
    /\ therapists = TherapistRows
    /\ bookings = <<>>
    /\ sessions = <<>>
    /\ today = MaxDay
    /\ resp = Response("none", 0, "")
    /\ reqs = <<>>
    /\ reminders = <<>>
    /\ mail = <<>>

NextProfile ==
    \/ \E user \in ProfileUsers, body \in ProfileBodies :
          UpdateTherapistProfile(user, body)
    \/ \E user \in Patients, body \in ProfileCreateBodies :
          CreateBooking(user, body)
    \/ \E user \in Patients, id \in BookingIds, body \in ProfileUpdateBodies :
          UpdateBooking(user, id, body)
    \/ \E user \in Patients, id \in BookingIds, body \in CancelBodies :
          CancelBooking(user, id, body)
    \/ \E user \in Owners, id \in BookingIds : CreateSession(user, id)
    \/ \E user \in Owners, id \in BookingIds : CompleteSession(user, id)
    \/ \E user \in Patients, id \in BookingIds, r \in RatingInputs :
          AddPatientFeedback(user, id, r)
    \/ MarkNoShows
    \/ SendSessionReminders({})

SpecProfile == InitProfile /\ [][NextProfile]_vars

(***************************************************************************)
(* Claims about the booking lifecycle, checked under Spec                  *)
(***************************************************************************)
\* the calendar day of a stored sessionDate
DayOfDate(date) == date \div MsPerDay

IsActive(booking) == booking.status \in {"pending", "confirmed"}

\* [time, time + duration) of the two bookings intersect
IntervalsOverlap(a, b) ==
    /\ ParseMinutes(a.sessionTime) < ParseMinutes(b.sessionTime) + b.duration
    /\ ParseMinutes(b.sessionTime) < ParseMinutes(a.sessionTime) + a.duration

SameTherapistAndDay(a, b) ==
    /\ a.therapistId = b.therapistId
    /\ DayOfDate(a.sessionDate) = DayOfDate(b.sessionDate)

\* C1: for each therapist and calendar date, no two bookings whose status is
\* pending or confirmed have overlapping intervals [time, time + duration).
C1_NoOverlappingActiveBookings ==
    \A i, j \in 1..Len(bookings) :
        (/\ i # j
         /\ SameTherapistAndDay(bookings[i], bookings[j])
         /\ IsActive(bookings[i])
         /\ IsActive(bookings[j]))
        => ~IntervalsOverlap(bookings[i], bookings[j])

\* C2: with requests handled one at a time, at most one booking in status
\* pending or confirmed exists for a therapist, calendar day and start time.
C2_AtMostOneActivePerStartTime ==
    \A i, j \in 1..Len(bookings) :
        (/\ i # j
         /\ SameTherapistAndDay(bookings[i], bookings[j])
         /\ bookings[i].sessionTime = bookings[j].sessionTime)
        => ~(IsActive(bookings[i]) /\ IsActive(bookings[j]))

\* the transitions of the lifecycle state machine
LifecycleTransitions ==
    {<<"pending", "confirmed">>, <<"confirmed", "completed">>,
     <<"pending", "cancelled">>, <<"confirmed", "cancelled">>,
     <<"pending", "no-show">>, <<"confirmed", "no-show">>}

\* C9: every change of a booking's status is a transition of the lifecycle
\* state machine, a transition into no-show is made only by the sweep, and
\* the stored status is always one of the five enum values.
C9_OnlyLifecycleTransitions ==
    [][\A i \in 1..Len(bookings) :
          /\ bookings'[i].status \in StatusEnum
          /\ bookings'[i].status # bookings[i].status
             => /\ <<bookings[i].status, bookings'[i].status>>
                       \in LifecycleTransitions
                /\ bookings'[i].status = "no-show"
                       => resp'.op = "markNoShows"]_vars

\* C10: once a booking's status is no-show, no later operation changes it.
C10_NoShowIsTerminal ==
    [][\A i \in 1..Len(bookings) :
          bookings[i].status = "no-show" => bookings'[i].status = "no-show"]_vars

(***************************************************************************)
(* Claims about createBooking (checked under SpecCreate) and about the     *)
(* availability resolver (checked under SpecResolve)                       *)
(***************************************************************************)
\* the weekday name of a day number, Sunday-indexed
WeekdayName(day) ==
    CASE day % 7 = 0 -> "sunday"
      [] day % 7 = 1 -> "monday"
      [] day % 7 = 2 -> "tuesday"
      [] day % 7 = 3 -> "wednesday"
      [] day % 7 = 4 -> "thursday"
      [] day % 7 = 5 -> "friday"
      [] day % 7 = 6 -> "saturday"

TherapistExists(id) == id \in DOMAIN therapists

\* the weekly schedule has a record for the day and it is marked available
WorksOn(id, day) ==
    /\ WeekdayName(day) \in DOMAIN therapists[id].availability
    /\ therapists[id].availability[WeekdayName(day)].available

\* an active booking of the therapist on that day with the same start time
SameStartBooked(body) ==
    \E i \in 1..Len(bookings) :
        /\ bookings[i].therapistId = body.therapistId
        /\ DayOfDate(bookings[i].sessionDate) = body.sessionDate
        /\ IsActive(bookings[i])
        /\ bookings[i].sessionTime = body.sessionTime

\* the step answered the request with a conflict error and stored nothing
RejectedAsConflict ==
    /\ resp'.op = "createBooking"
    /\ resp'.status = 400
    /\ resp'.message = "Time slot is already booked"
    /\ bookings' = bookings

\* the step stored the requested booking as a new pending row
Accepted(body) ==
    /\ resp'.op = "createBooking"
    /\ resp'.status = 201
    /\ Len(bookings') = Len(bookings) + 1
    /\ SubSeq(bookings', 1, Len(bookings)) = bookings
    /\ LET row == bookings'[Len(bookings')]
       IN /\ row.therapistId = body.therapistId
          /\ DayOfDate(row.sessionDate) = body.sessionDate
          /\ row.sessionTime = body.sessionTime
          /\ row.status = "pending"

\* C4: for a verified therapist on an available day, createBooking is
\* rejected as a conflict exactly when an active booking of that therapist on
\* that day has the same start time string, and is accepted otherwise, also
\* when the requested interval overlaps an active booking.
C4_ConflictIffSameStartTime ==
    [][\A user \in Patients, body \in AllCreateBodies :
          (/\ resp'.op = "createBooking"
           /\ TherapistExists(body.therapistId)
           /\ therapists[body.therapistId].isVerified
           /\ WorksOn(body.therapistId, body.sessionDate)
           /\ CreateBooking(user, body))
          => /\ RejectedAsConflict <=> SameStartBooked(body)
             /\ ~SameStartBooked(body) => Accepted(body)]_vars

\* a request was accepted although its interval overlaps an active booking of
\* the same therapist and day that starts at another time
C4_Witness ==
    /\ resp.op = "createBooking"
    /\ resp.status = 201
    /\ \E i \in 1..(Len(bookings) - 1) :
          /\ SameTherapistAndDay(bookings[i], bookings[Len(bookings)])
          /\ IsActive(bookings[i])
          /\ bookings[i].sessionTime # bookings[Len(bookings)].sessionTime
          /\ IntervalsOverlap(bookings[i], bookings[Len(bookings)])

\* one of the four reasons to reject a createBooking request
MustReject(body) ==
    \/ ~TherapistExists(body.therapistId)
    \/ ~therapists[body.therapistId].isVerified
    \/ ~WorksOn(body.therapistId, body.sessionDate)
    \/ SameStartBooked(body)

\* C5: a rejected createBooking request (therapist not found, not verified,
\* unavailable on that weekday, or start-time conflict) is answered 404 for a
\* missing therapist and 400 otherwise, creates no booking and changes none.
C5_RejectionChangesNothing ==
    [][\A user \in Patients, body \in AllCreateBodies :
          (/\ resp'.op = "createBooking"
           /\ MustReject(body)
           /\ CreateBooking(user, body))
          => /\ resp'.status \in {400, 404}
             /\ resp'.status =
                   IF TherapistExists(body.therapistId) THEN 400 ELSE 404
             /\ bookings' = bookings
             /\ sessions' = sessions]_vars

\* a request for an unverified therapist was rejected while bookings exist
C5_Witness ==
    /\ resp.op = "createBooking"
    /\ resp.status = 400
    /\ resp.message = "Therapist is not verified"
    /\ Len(bookings) > 0

\* C6: the availability resolver reports unavailable whenever the record of
\* the date's weekday (Sunday-indexed) is absent or has available = false,
\* and otherwise available with that record's start and end; in
\* getTherapistAvailability the answer is available: false without slots, in
\* createBooking the request is rejected.
C6_ResolverFollowsWeekdayRecord ==
    [][/\ \A id \in DOMAIN therapists, date \in RequestDays :
             (/\ resp'.op = "getTherapistAvailability"
              /\ GetTherapistAvailability(id, date))
             => IF WorksOn(id, date)
                THEN /\ resp'.data[1].available
                     /\ resp'.data[1].workingHours.start =
                            therapists[id].availability[WeekdayName(date)].start
                     /\ resp'.data[1].workingHours.end =
                            therapists[id].availability[WeekdayName(date)].end
                ELSE /\ resp'.status = 200
                     /\ resp'.data = Some([available |-> FALSE])
       /\ \A user \in Patients, body \in AllCreateBodies :
             (/\ resp'.op = "createBooking"
              /\ TherapistExists(body.therapistId)
              /\ therapists[body.therapistId].isVerified
              /\ CreateBooking(user, body))
             => IF WorksOn(body.therapistId, body.sessionDate)
                THEN resp'.message # "Therapist is not available on this day"
                ELSE /\ resp'.status = 400
                     /\ resp'.message = "Therapist is not available on this day"
                     /\ bookings' = bookings]_vars

\* the query answered that the therapist does not work on the requested day
C6_Witness ==
    /\ resp.op = "getTherapistAvailability"
    /\ resp.status = 200
    /\ resp.data = Some([available |-> FALSE])

(***************************************************************************)
(* Claims about the slot generator, checked under SpecAvail                *)
(***************************************************************************)
\* minutes since midnight of a five-character "HH:MM" string, by position
DigitValue(c) == (CHOOSE d \in 1..10 : Digits[d] = c) - 1
MinutesOfHHMM(str) ==
    (DigitValue(str[1]) * 10 + DigitValue(str[2])) * 60
        + DigitValue(str[4]) * 10 + DigitValue(str[5])

\* the zero-padded "HH:MM" string of a minute of the day
HHMM(m) ==
    <<Digits[((m \div 60) \div 10) + 1], Digits[((m \div 60) % 10) + 1], ":",
      Digits[((m % 60) \div 10) + 1], Digits[((m % 60) % 10) + 1]>>

\* the number of k >= 0 with start + (k + 1) * 60 <= end
SlotCount(start, end) == IF end - start < 60 THEN 0 ELSE (end - start) \div 60

\* start, start + 60, ... for every k >= 0 with start + (k + 1) * 60 <= end
GridSlots(start, end) ==
    [k \in 1..SlotCount(start, end) |-> HHMM(start + (k - 1) * 60)]

\* the active bookings of the therapist on that day
ActiveBookingsOn(id, day) ==
    {i \in 1..Len(bookings) :
        /\ bookings[i].therapistId = id
        /\ DayOfDate(bookings[i].sessionDate) = day
        /\ IsActive(bookings[i])}

WindowStart(id, day) ==
    MinutesOfHHMM(therapists[id].availability[WeekdayName(day)].start)
WindowEnd(id, day) ==
    MinutesOfHHMM(therapists[id].availability[WeekdayName(day)].end)

EightSlots ==
    <<HHMM(540), HHMM(600), HHMM(660), HHMM(720), HHMM(780), HHMM(840),
      HHMM(900), HHMM(960)>>

\* C7: with no pending or confirmed booking, the slot generator returns
\* exactly the start times start + k * 60 with start + (k + 1) * 60 <= end,
\* strictly ascending, as zero-padded HH:MM; eight slots 09:00 .. 16:00 for
\* 09:00-17:00, and none when end - start < 60.
C7_SlotsOfEmptyDay ==
    [][\A id \in QueryIds, date \in QueryDays :
          (/\ resp'.op = "getTherapistAvailability"
           /\ WorksOn(id, date)
           /\ ActiveBookingsOn(id, date) = {}
           /\ GetTherapistAvailability(id, date))
          => LET slots == resp'.data[1].availableSlots
                 start == WindowStart(id, date)
                 end == WindowEnd(id, date)
             IN /\ slots = GridSlots(start, end)
                /\ \A k \in 1..(Len(slots) - 1) :
                      MinutesOfHHMM(slots[k]) < MinutesOfHHMM(slots[k + 1])
                /\ (start = 540 /\ end = 1020) => slots = EightSlots
                /\ end - start < 60 => slots = <<>>]_vars

\* the query answered the eight slots of a free 09:00-17:00 day
C7_Witness ==
    /\ resp.op = "getTherapistAvailability"
    /\ resp.status = 200
    /\ resp.data # None
    /\ resp.data[1].available
    /\ resp.data[1].availableSlots = EightSlots
    /\ resp.data[1].workingHours = [start |-> T0900, end |-> T1700]

\* the candidate slot starting at minute t is in the answer
Listed(slots, t) == \E k \in 1..Len(slots) : slots[k] = HHMM(t)

\* C8: a candidate slot starting at t is omitted from availableSlots exactly
\* when some pending or confirmed booking of that therapist on that date has
\* t < bookedStart + bookedDuration and t + 60 > bookedStart; a 60-minute
\* booking at 10:00 removes exactly the slot 10:00, and cancelled, completed
\* and no-show bookings remove nothing.
C8_SlotOmittedIffOverlap ==
    [][\A id \in QueryIds, date \in QueryDays :
          (/\ resp'.op = "getTherapistAvailability"
           /\ WorksOn(id, date)
           /\ GetTherapistAvailability(id, date))
          => LET slots == resp'.data[1].availableSlots
                 start == WindowStart(id, date)
                 end == WindowEnd(id, date)
                 active == ActiveBookingsOn(id, date)
             IN /\ \A k \in 1..SlotCount(start, end) :
                      LET t == start + (k - 1) * 60
                      IN ~Listed(slots, t)
                         <=> \E i \in active :
                                /\ t < MinutesOfHHMM(bookings[i].sessionTime)
                                         + bookings[i].duration
                                /\ t + 60 > MinutesOfHHMM(bookings[i].sessionTime)
                /\ \A k \in 1..Len(slots) :
                      \E j \in 1..SlotCount(start, end) :
                          slots[k] = HHMM(start + (j - 1) * 60)
                /\ (/\ start = 540 /\ end = 1020
                    /\ active # {}
                    /\ \A i \in active :
                          /\ bookings[i].sessionTime = T1000
                          /\ bookings[i].duration = 60)
                   => slots = <<HHMM(540), HHMM(660), HHMM(720), HHMM(780),
                                HHMM(840), HHMM(900), HHMM(960)>>]_vars

\* the query left out exactly the slot 10:00 of a 09:00-17:00 day on which a
\* pending booking and a cancelled booking both start at 10:00
C8_Witness ==
    /\ resp.op = "getTherapistAvailability"
    /\ resp.status = 200
    /\ resp.data # None
    /\ resp.data[1].available
    /\ resp.data[1].date = 1
    /\ resp.data[1].workingHours = [start |-> T0900, end |-> T1700]
    /\ resp.data[1].availableSlots =
           <<HHMM(540), HHMM(660), HHMM(720), HHMM(780), HHMM(840), HHMM(900),
             HHMM(960)>>
    /\ \E i, j \in 1..Len(bookings) :
          /\ bookings[i] = StoredBooking("t1", 1, T1000, 60, "pending")
          /\ bookings[j] = StoredBooking("t1", 1, T1000, 60, "cancelled")

(***************************************************************************)
(* Claims about interleaved createBooking requests, checked under SpecRace *)
(***************************************************************************)
\* requests p and q ask for the same therapist, day and start time
SameSlotRequested(p, q) ==
    /\ reqs[p].body # None
    /\ reqs[q].body # None
    /\ reqs[p].body[1].therapistId = reqs[q].body[1].therapistId
    /\ reqs[p].body[1].sessionDate = reqs[q].body[1].sessionDate
    /\ reqs[p].body[1].sessionTime = reqs[q].body[1].sessionTime

\* request p ran its conflict query, and at that moment request q had not
\* inserted and no other active row held the slot
QueriedBeforeInsertOf(p, q) ==
    /\ reqs[p].seen >= 0
    /\ reqs[q].bookingId = 0 \/ reqs[p].seen < reqs[q].bookingId
    /\ \A i \in 1..reqs[p].seen :
          ~(/\ bookings[i].therapistId = reqs[p].body[1].therapistId
            /\ DayOfDate(bookings[i].sessionDate) = reqs[p].body[1].sessionDate
            /\ bookings[i].sessionTime = reqs[p].body[1].sessionTime
            /\ IsActive(bookings[i]))

\* request p was answered 201 and its row is in the table with status pending
InsertedPending(p) ==
    /\ reqs[p].status = 201
    /\ reqs[p].bookingId \in 1..Len(bookings)
    /\ bookings[reqs[p].bookingId].status = "pending"
    /\ bookings[reqs[p].bookingId].therapistId = reqs[p].body[1].therapistId
    /\ DayOfDate(bookings[reqs[p].bookingId].sessionDate)
           = reqs[p].body[1].sessionDate
    /\ bookings[reqs[p].bookingId].sessionTime = reqs[p].body[1].sessionTime

\* C3: when two createBooking requests for the same therapist, day and start
\* time both run the conflict query before either inserts, both pass the
\* conflict check and both rows are inserted with status pending.
C3_RaceInsertsBoth ==
    \A p, q \in 1..NumRequests :
        (/\ p # q
         /\ SameSlotRequested(p, q)
         /\ QueriedBeforeInsertOf(p, q)
         /\ QueriedBeforeInsertOf(q, p))
        => /\ reqs[p].pc \in {"create", "done"}
           /\ reqs[p].status \in {0, 201}
           /\ reqs[p].pc = "done" => InsertedPending(p)
           /\ (reqs[p].pc = "done" /\ reqs[q].pc = "done")
                 => reqs[p].bookingId # reqs[q].bookingId

\* two interleaved requests for one slot have both been answered 201
C3_Witness ==
    \E p, q \in 1..NumRequests :
        /\ p # q
        /\ SameSlotRequested(p, q)
        /\ QueriedBeforeInsertOf(p, q)
        /\ QueriedBeforeInsertOf(q, p)
        /\ reqs[p].pc = "done" /\ reqs[q].pc = "done"
        /\ InsertedPending(p) /\ InsertedPending(q)
        /\ reqs[p].bookingId # reqs[q].bookingId

(***************************************************************************)
(* Claims about the status of a new booking, checked under SpecCreate      *)
(***************************************************************************)
\* C11: every booking that createBooking inserts has status pending right
\* after the insert, whatever the request body holds; a status field in the
\* body is ignored.
C11_CreatedPending ==
    [][\A user \in Patients, body \in AllCreateBodies \cup StatusCreateBodies :
          (/\ resp'.op = "createBooking"
           /\ resp'.status = 201
           /\ CreateBooking(user, body))
          => /\ Len(bookings') = Len(bookings) + 1
             /\ bookings'[Len(bookings')].status = "pending"
             /\ \A i \in 1..Len(bookings) : bookings'[i] = bookings[i]]_vars

\* a request whose body asked for status completed was answered 201
C11_Witness ==
    /\ resp.op = "createBooking"
    /\ resp.status = 201
    /\ Len(bookings) > 0
    /\ bookings[Len(bookings)].status = "pending"
    /\ CreateBookingChecks(therapists, SubSeq(bookings, 1, Len(bookings) - 1),
                           WithStatus(CreateBody("t1", 1, [sessionTime |-> T0900,
                                                           duration |-> None]),
                                      "completed")) = None
    /\ bookings[Len(bookings)] =
           NewBooking("p1", WithStatus(CreateBody("t1", 1,
                                [sessionTime |-> T0900, duration |-> None]),
                                "completed"))

(***************************************************************************)
(* Claims about cancellation, checked under SpecCancel and Spec            *)
(***************************************************************************)
\* the requester is an admin, the patient of the booking or the user of its
\* therapist
MayActOn(user, booking) ==
    \/ Role[user] = "admin"
    \/ booking.patientId = user
    \/ /\ booking.therapistId \in DOMAIN therapists
       /\ therapists[booking.therapistId].userId = user

CancelFieldsUnchanged(id) ==
    /\ bookings'[id].status = bookings[id].status
    /\ bookings'[id].cancelledAt = bookings[id].cancelledAt
    /\ bookings'[id].cancelledBy = bookings[id].cancelledBy
    /\ bookings'[id].cancellationReason = bookings[id].cancellationReason

Supplied(reason) == reason # Undefined /\ reason # ""

\* booking id was stamped by this step as cancelled by the user
Stamped(id, user, reason) ==
    /\ bookings'[id].status = "cancelled"
    /\ bookings'[id].cancelledAt = Some(NewDate(today))
    /\ bookings'[id].cancelledBy = user
    /\ Supplied(reason) => bookings'[id].cancellationReason = reason

\* every cancelled booking carries a cancellation time and an actor
CancelledHaveStamp ==
    \A i \in 1..Len(bookings) :
        bookings[i].status = "cancelled"
            => /\ bookings[i].cancelledAt # None
               /\ bookings[i].cancelledBy # Null

\* C13: an operation that moves a booking to cancelled (cancelBooking, or
\* updateBooking with status cancelled) records cancelledAt, sets cancelledBy
\* to the requesting user and records the cancellationReason when one is
\* supplied; hence every booking with status cancelled has cancelledAt and
\* cancelledBy set.
C13_CancellationIsStamped ==
    /\ []CancelledHaveStamp
    /\ [][/\ \A user \in StoredUsers, id \in BookingIds,
                body \in StoredCancelBodies :
                (/\ resp'.op = "cancelBooking"
                 /\ resp'.status = 200
                 /\ CancelBooking(user, id, body))
                => Stamped(id, user, body.cancellationReason)
          /\ \A user \in StoredUsers, id \in BookingIds,
                body \in StoredUpdateBodies :
                (/\ resp'.op = "updateBooking"
                 /\ resp'.status = 200
                 /\ body.status = "cancelled"
                 /\ UpdateBooking(user, id, body))
                => Stamped(id, user, body.cancellationReason)
          /\ \A i \in 1..Len(bookings) :
                (bookings'[i].status = "cancelled" /\ bookings'[i] # bookings[i])
                => resp'.op \in {"cancelBooking", "updateBooking"}]_vars

\* the therapist's user cancelled a booking through updateBooking, with a reason
C13_Witness ==
    /\ resp.op = "updateBooking"
    /\ resp.status = 200
    /\ \E i \in 1..Len(bookings) :
          /\ bookings[i].status = "cancelled"
          /\ bookings[i].patientId = "p1"
          /\ bookings[i].cancelledBy = "u1"
          /\ bookings[i].cancelledAt = Some(NewDate(today))
          /\ bookings[i].cancellationReason = "schedule change"

(***************************************************************************)
(* Claims about the no-show job, checked under SpecSweep                   *)
(***************************************************************************)
\* the last millisecond of the day before day D
EndOfDayBefore(D) == (D - 1) * MsPerDay + MsPerDay - 1

\* the booking is dated strictly before the end of yesterday and is active
DueForNoShow(booking) ==
    /\ booking.sessionDate < EndOfDayBefore(today)
    /\ booking.status \in {"pending", "confirmed"}

\* C14: after one pass of markNoShows run at day D, every booking whose
\* sessionDate is strictly before the end of day D-1 and whose status was
\* pending or confirmed has status no-show, so no pending or confirmed booking
\* dated before that threshold remains.
C14_SweepMarksAllDue ==
    [][(resp'.op = "markNoShows" /\ MarkNoShows)
          => /\ \A i \in 1..Len(bookings) :
                   DueForNoShow(bookings[i]) => bookings'[i].status = "no-show"
             /\ \A i \in 1..Len(bookings') :
                   ~(/\ bookings'[i].sessionDate < EndOfDayBefore(today)
                     /\ bookings'[i].status \in {"pending", "confirmed"})]_vars

\* the pass of day 3 has marked the booking of day 2 at 09:00, stored confirmed
C14_Witness ==
    /\ resp.op = "markNoShows"
    /\ today = 3
    /\ \E i \in 1..Len(bookings) :
          bookings[i] = [StoredBooking("t1", 2, T0900, 60, "confirmed")
                            EXCEPT !.status = "no-show"]

\* C15: a second pass of markNoShows right after a first one, on the same day
\* with nothing in between, changes no booking.
C15_SweepIdempotent ==
    [][(resp'.op = "markNoShows" /\ MarkNoShows)
          => SweptBookings(bookings', Now(today')) = bookings']_vars

\* a pass has marked two bookings at once
C15_Witness ==
    /\ resp.op = "markNoShows"
    /\ Len(bookings) >= 2
    /\ bookings[1] = [StoredBooking("t1", 2, T1000, 60, "pending")
                         EXCEPT !.status = "no-show"]
    /\ bookings[2] = [StoredBooking("t1", 2, T0900, 60, "confirmed")
                         EXCEPT !.status = "no-show"]

\* C20: markNoShows changes only the status field of the bookings it matches;
\* bookings with status cancelled, completed or no-show and bookings dated on
\* or after the end of yesterday are left entirely unchanged, and no booking
\* is created or deleted.
C20_SweepChangesOnlyStatus ==
    [][(resp'.op = "markNoShows" /\ MarkNoShows)
          => /\ Len(bookings') = Len(bookings)
             /\ \A i \in 1..Len(bookings) :
                   /\ bookings'[i] = [bookings[i] EXCEPT
                                         !.status = bookings'[i].status]
                   /\ (\/ bookings[i].status \in
                             {"cancelled", "completed", "no-show"}
                       \/ bookings[i].sessionDate >= EndOfDayBefore(today))
                      => bookings'[i] = bookings[i]
             /\ sessions' = sessions
             /\ therapists' = therapists]_vars

\* the pass of day 3 has marked the booking of day 2 at 09:00 and left a
\* cancelled booking of day 1 as it was
C20_Witness ==
    /\ resp.op = "markNoShows"
    /\ today = 3
    /\ \E i, j \in 1..Len(bookings) :
          /\ bookings[i] = StoredBooking("t1", 1, T1000, 60, "cancelled")
          /\ bookings[j].status = "no-show"
          /\ bookings[j].sessionTime = T0900
          /\ bookings[j].sessionDate = NewDate(2)

(***************************************************************************)
(* Claims about the reminder job, checked under SpecRemind                 *)
(***************************************************************************)
\* the number of reminder emails sent for booking id
RemindersOf(id) == Cardinality({k \in 1..Len(reminders) : reminders[k] = id})

\* the booking is dated on the day after today
DatedTomorrow(booking) ==
    /\ booking.sessionDate >= (today + 1) * MsPerDay
    /\ booking.sessionDate < (today + 2) * MsPerDay

C17_AvailabilityChangedByOwnerOnly ==
    [][/\ DOMAIN therapists' = DOMAIN therapists
       /\ \A t \in DOMAIN therapists :
             therapists'[t].availability # therapists[t].availability
                 => /\ resp'.op = "updateTherapistProfile"
                    /\ resp'.status = 200
                    /\ \E user \in ProfileUsers, body \in ProfileBodies :
                          /\ UpdateTherapistProfile(user, body)
                          /\ \/ therapists[t].userId = user
                             \/ Role[user] = "admin"
       /\ \A user \in ProfileUsers, body \in ProfileBodies :
             (/\ resp'.op = "updateTherapistProfile"
              /\ UpdateTherapistProfile(user, body))
             => \A t \in DOMAIN therapists :
                   (therapists[t].userId # user /\ Role[user] # "admin")
                       => therapists'[t] = therapists[t]]_vars

\* the user of t1 replaced the schedule of t1 while a rated session of t1
\* exists, and the schedule of t2 is the stored one
C17_Witness ==
    /\ resp.op = "updateTherapistProfile"
    /\ resp.status = 200
    /\ therapists["t1"].availability = WeekendAvailability
    /\ therapists["t2"].availability = AltAvailability
    /\ therapists["t1"].totalReviews = 1
    /\ Len(bookings) > 0

C19_UnavailableIsAlwaysSuccess ==
    [][\A id \in TherapistIds, date \in RequestDays :
          (/\ resp'.op = "getTherapistAvailability"
           /\ ~(TherapistExists(id) /\ WorksOn(id, date))
           /\ GetTherapistAvailability(id, date))
          => /\ resp'.status = 200
             /\ resp'.data = Some([available |-> FALSE])]_vars

\* C19 amended: when the requested therapist exists and is not available on
\* the requested day, the query answers success with available = false; when
\* the therapist does not exist it answers the error 404 "Therapist not
\* found" with no data. Checked under SpecResolve.
C19_UnavailableOrNotFound ==
    [][\A id \in TherapistIds, date \in RequestDays :
          (/\ resp'.op = "getTherapistAvailability"
           /\ ~(TherapistExists(id) /\ WorksOn(id, date))
           /\ GetTherapistAvailability(id, date))
          => IF TherapistExists(id)
             THEN /\ resp'.status = 200
                  /\ resp'.data = Some([available |-> FALSE])
             ELSE /\ resp'.status = 404
                  /\ resp'.message = "Therapist not found"
                  /\ resp'.data = None]_vars

\* the query for a therapist id of no row was answered 404
C19_Witness ==
    /\ resp.op = "getTherapistAvailability"
    /\ resp.status = 404
    /\ resp.message = "Therapist not found"
    /\ resp.data = None


(***************************************************************************)
(* Interleaved createSession requests                                      *)
(***************************************************************************)
\* Session.create on a table without the unique index on bookingId
SessionCreate_NoUnique(ses, row) == Some(Append(ses, row))

\* Session.create: bookingId is unique, a second row for the booking is
\* turned away by the database
SessionCreate(ses, row) ==
    IF SessionOfBooking(ses, row.bookingId) # {} THEN None
    ELSE Some(Append(ses, row))

\* two requests in flight at a time
SessionRequests == {"r1", "r2"}

IdleSessionRequest ==
    [pc |-> "idle", user |-> Null, bookingId |-> 0, status |-> 0]

\* a createSession request arrives, past authorize('therapist', 'admin')
ReceiveCreateSession(p, user, bookingId) ==
    /\ reqs[p].pc = "idle"
    /\ Role[user] \in {"therapist", "admin"}
    /\ reqs' = [reqs EXCEPT ![p] = [@ EXCEPT !.pc = "findBooking",
                                             !.user = user,
                                             !.bookingId = bookingId]]
    /\ UNCHANGED <<therapists, bookings, sessions, today, resp, reminders, mail>>

\* the answer a request ends with
SessionAnswer(p, status, message) ==
    /\ reqs' = [reqs EXCEPT ![p] = [@ EXCEPT !.pc = "done", !.status = status]]
    /\ resp' = Response("createSession", status, message)

\* Booking.findByPk and Therapist.findOne resolve; the handler tests the
\* booking it has loaded and runs up to await Session.findOne
FindBookingStep(p) ==
    LET bookingId == reqs[p].bookingId
    IN /\ reqs[p].pc = "findBooking"
       /\ IF bookingId \notin 1..Len(bookings)
          THEN SessionAnswer(p, 404, "Booking not found")
          ELSE IF \A t \in TherapistOfUser(therapists, reqs[p].user) :
                      bookings[bookingId].therapistId # t
          THEN SessionAnswer(p, 403,
                   "Only the assigned therapist can create a session")
          ELSE IF bookings[bookingId].status # "confirmed"
          THEN SessionAnswer(p, 400,
                   "Booking must be confirmed to create a session")
          ELSE /\ reqs' = [reqs EXCEPT ![p].pc = "findSession"]
               /\ UNCHANGED resp
       /\ UNCHANGED <<therapists, bookings, sessions, today, reminders, mail>>

\* Session.findOne resolves; the handler runs up to await Session.create
FindSessionStep(p) ==
    /\ reqs[p].pc = "findSession"
    /\ IF SessionOfBooking(sessions, reqs[p].bookingId) # {}
       THEN SessionAnswer(p, 400, "Session already exists for this booking")
       ELSE /\ reqs' = [reqs EXCEPT ![p].pc = "create"]
            /\ UNCHANGED resp
    /\ UNCHANGED <<therapists, bookings, sessions, today, reminders, mail>>

\* Session.create resolves or rejects; a rejection goes to next(error)
SessionCreateStep(p) ==
    LET bookingId == reqs[p].bookingId
        created == SessionCreate(sessions,
                                 NewSession(bookingId, bookings[bookingId],
                                          Now(today)))
    IN /\ reqs[p].pc = "create"
       /\ IF created = None
          THEN /\ SessionAnswer(p, 500, "error")
               /\ UNCHANGED sessions
          ELSE /\ sessions' = created[1]
               /\ reqs' = [reqs EXCEPT ![p].pc = "save"]
               /\ UNCHANGED resp
       /\ UNCHANGED <<therapists, bookings, today, reminders, mail>>

\* booking.status = 'completed'; booking.save() resolves; the handler
\* answers 201
SaveBookingStep(p) ==
    /\ reqs[p].pc = "save"
    /\ bookings' = [bookings EXCEPT ![reqs[p].bookingId].status = "completed"]
    /\ SessionAnswer(p, 201, "Session created successfully")
    /\ UNCHANGED <<therapists, sessions, today, reminders, mail>>

\* a confirmed and a pending booking of t1
SessionSamples ==
    {StoredBooking("t1", 1, T1000, 60, "confirmed"),
     StoredBooking("t1", 1, T1000, 60, "pending")}
SessionTables == UNION {[1..n -> SessionSamples] : n \in 0..MaxBookings}
SessionUsers == {"u1", "u2", "admin"}

InitSessionRace ==
    /\ therapists = TherapistRows
    /\ bookings \in SessionTables
    /\ sessions = <<>>
    /\ today = 1
    /\ resp = Response("none", 0, "")
    /\ reqs = [p \in SessionRequests |-> IdleSessionRequest]
    /\ reminders = <<>>
    /\ mail = <<>>

NextSessionRace ==
    \/ \E p \in SessionRequests, user \in {"u1", "u2"}, id \in BookingIds :
          ReceiveCreateSession(p, user, id)
    \/ \E p \in SessionRequests : FindBookingStep(p)
    \/ \E p \in SessionRequests : FindSessionStep(p)
    \/ \E p \in SessionRequests : SessionCreateStep(p)
    \/ \E p \in SessionRequests : SaveBookingStep(p)
    \/ \E user \in SessionUsers, id \in BookingIds : CreateSession(user, id)

SpecSessionRace == InitSessionRace /\ [][NextSessionRace]_vars

(***************************************************************************)
(* Sessions of stored bookings, handled one at a time                      *)
(***************************************************************************)
SessionPatients == {"p1", "p2"}
\* no endTime in the body, or the date of day 0
EndTimeInputs == {None, Some(0)}
NotesInputs == {Undefined, "notes"}
FeedbackRatings == {0, 2, 5}

\* confirmed bookings of p1 with t1 and with t2
ConfirmedSamples ==
    {StoredBooking(t, 1, T1000, 60, "confirmed") : t \in {"t1", "t2"}}
ConfirmedTables == UNION {[1..n -> ConfirmedSamples] : n \in 0..MaxBookings}

InitSession ==
    /\ therapists = TherapistRows
    /\ bookings \in ConfirmedTables
    /\ sessions = <<>>
    /\ today = 1
    /\ resp = Response("none", 0, "")
    /\ reqs = <<>>
    /\ reminders = <<>>
    /\ mail = <<>>

NextSession ==
    \/ \E user \in SessionUsers, id \in BookingIds : CreateSession(user, id)
    \/ \E user \in SessionUsers, id \in BookingIds, notes \in NotesInputs :
          UpdateSession(user, id, notes)
    \/ \E user \in SessionUsers, id \in BookingIds, endTime \in EndTimeInputs :
          CompleteSessionAt(user, id, endTime)
    \/ \E user \in SessionPatients, id \in BookingIds, r \in FeedbackRatings :
          AddPatientFeedback(user, id, r)
    \/ Tick

SpecSession == InitSession /\ [][NextSession]_vars

(***************************************************************************)
(* Notification emails of the booking requests                             *)
(***************************************************************************)
\* the request tried to send this kind of email about this booking
Attempted(kind, id) ==
    \E k \in 1..Len(mail) : mail[k].kind = kind /\ mail[k].bookingId = id

\* C21: when updateBooking changes a booking's status to a value different
\* from its previous status, a booking status-update email is sent; when the
\* requested status equals the previous status, or no status is given, no
\* email is sent.
C21_StatusChangeIsNotified ==
    [][\A user \in StoredUsers, id \in BookingIds, body \in StoredUpdateBodies :
          (/\ resp'.op = "updateBooking"
           /\ resp'.status = 200
           /\ UpdateBooking(user, id, body))
          => IF body.status # Undefined /\ body.status # bookings[id].status
             THEN /\ Len(mail') = 1
                  /\ mail'[1].kind = "bookingStatusUpdate"
                  /\ mail'[1].bookingId = id
             ELSE mail' = <<>>]_vars


\* the only email the request tried to send threw
OnlyEmailThrew == Len(mail) = 1 /\ mail[1].thrown

\* C22: a failure to send the notification email does not undo or fail the
\* state change: when the email send throws, createBooking still leaves the
\* new pending booking stored and answers 201, and cancelBooking still
\* leaves the booking cancelled and answers success.
C22_EmailFailureKeepsChange ==
    [][/\ \A user \in Patients, body \in AllCreateBodies \cup StatusCreateBodies :
             (/\ OnlyEmailThrew'
              /\ mail'[1].kind = "bookingConfirmation"
              /\ CreateBooking(user, body))
             => /\ resp'.status = 201
                /\ Len(bookings') = Len(bookings) + 1
                /\ mail'[1].bookingId = Len(bookings')
                /\ bookings'[Len(bookings')].status = "pending"
                /\ bookings'[Len(bookings')].patientId = user
                /\ bookings'[Len(bookings')].therapistId = body.therapistId
                /\ bookings'[Len(bookings')].sessionTime = body.sessionTime
                /\ \A i \in 1..Len(bookings) : bookings'[i] = bookings[i]
       /\ \A user \in Patients, id \in BookingIds, body \in CancelBodies :
             (/\ OnlyEmailThrew'
              /\ mail'[1].kind = "bookingStatusUpdate"
              /\ CancelBooking(user, id, body))
             => /\ resp'.status = 200
                /\ resp'.message = "Booking cancelled successfully"
                /\ mail'[1].bookingId = id
                /\ bookings'[id].status = "cancelled"
                /\ bookings'[id].cancelledBy = user
                /\ \A i \in 1..Len(bookings) :
                      i # id => bookings'[i] = bookings[i]]_vars

\* booking 1 was cancelled although its cancellation email threw, after a
\* booking was created
C22_Witness ==
    /\ resp.op = "cancelBooking"
    /\ resp.status = 200
    /\ OnlyEmailThrew
    /\ mail[1].bookingId = 1
    /\ Len(bookings) = 2
    /\ bookings[1].status = "cancelled"
    /\ bookings[2].status = "pending"


(***************************************************************************)
(* Update and cancel requests of every kind of user on stored bookings     *)
(***************************************************************************)
\* the patient, another patient, the therapist's user, the user of another
\* therapist profile and an admin
AuthUsers == {"p1", "p2", "u1", "u2", "admin"}
AuthUpdateBodies ==
    [status : {Undefined, "confirmed"}, cancellationReason : {Undefined}]

NextAuth ==
    \/ \E user \in AuthUsers, id \in BookingIds, body \in AuthUpdateBodies :
          UpdateBooking(user, id, body)
    \/ \E user \in AuthUsers, id \in BookingIds, body \in CancelBodies :
          CancelBooking(user, id, body)

SpecAuth == InitCancel /\ [][NextAuth]_vars

\* C23: updateBooking and cancelBooking requested by a user who is neither
\* an admin, nor the booking's patient, nor the user owning the booking's
\* assigned therapist profile, answer 403 and leave the booking unchanged.
C23_OutsiderGets403 ==
    [][/\ \A user \in AuthUsers, id \in BookingIds, body \in AuthUpdateBodies :
             (/\ resp'.op = "updateBooking"
              /\ id \in 1..Len(bookings)
              /\ ~MayActOn(user, bookings[id])
              /\ UpdateBooking(user, id, body))
             => /\ resp'.status = 403
                /\ bookings' = bookings
                /\ mail' = <<>>
       /\ \A user \in AuthUsers, id \in BookingIds, body \in CancelBodies :
             (/\ resp'.op = "cancelBooking"
              /\ id \in 1..Len(bookings)
              /\ ~MayActOn(user, bookings[id])
              /\ CancelBooking(user, id, body))
             => /\ resp'.status = 403
                /\ bookings' = bookings
                /\ mail' = <<>>]_vars

\* a request on the bookings was turned away with 403 and booking 1 is
\* still confirmed and not cancelled
C23_Witness ==
    /\ resp.status = 403
    /\ resp.op \in {"updateBooking", "cancelBooking"}
    /\ Len(bookings) >= 1
    /\ bookings[1].status = "confirmed"
    /\ bookings[1].cancelledBy = Null


(***************************************************************************)
(* Sessions                                                                *)
(***************************************************************************)
\* the conditions under which createSession goes through
MayCreateSession(user, id) ==
    /\ id \in 1..Len(bookings)
    /\ bookings[id].status = "confirmed"
    /\ bookings[id].therapistId \in DOMAIN therapists
    /\ therapists[bookings[id].therapistId].userId = user
    /\ \A i \in 1..Len(sessions) : sessions[i].bookingId # id

AtMostOneSessionPerBooking ==
    \A i, j \in 1..Len(sessions) :
        sessions[i].bookingId = sessions[j].bookingId => i = j

AssignedTherapist(user, session) ==
    /\ session.therapistId \in DOMAIN therapists
    /\ therapists[session.therapistId].userId = user

NextFree ==
    \/ \E user \in Patients, body \in CreateBodies : CreateBooking(user, body)
    \/ \E user \in Patients, id \in BookingIds, body \in CancelBodies :
          CancelBooking(user, id, body)
    \/ \E date \in 1..MaxDay : GetTherapistAvailability("t1", date)

SpecFree == Init /\ [][NextFree]_vars

\* the table without the row of that id
WithoutBooking(bks, id) ==
    [k \in 1..(Len(bks) - 1) |-> IF k < id THEN bks[k] ELSE bks[k + 1]]

\* a request for the therapist, day and start time of the booking
SameSlotBody(booking) ==
    [therapistId |-> booking.therapistId,
     sessionDate |-> DayOfDate(booking.sessionDate),
     sessionTime |-> booking.sessionTime,
     duration |-> None]

\* an active booking of the table with the therapist, day and start time
StartTaken(bks, booking) ==
    \E i \in 1..Len(bks) :
        /\ SameTherapistAndDay(bks[i], booking)
        /\ IsActive(bks[i])
        /\ bks[i].sessionTime = booking.sessionTime

\* C26: after cancelBooking succeeds on a booking, that booking no longer
\* removes any slot from the availability query (the query answers as if the
\* row were not in the table), and a createBooking for the same therapist,
\* day and start time is accepted provided no other pending or confirmed
\* booking has that start time.
C26_CancelFreesSlot ==
    [][/\ \A user \in Patients, id \in BookingIds, body \in CancelBodies :
             (/\ resp'.op = "cancelBooking"
              /\ resp'.status = 200
              /\ CancelBooking(user, id, body))
             => /\ \A date \in 0..MaxDay :
                      AvailabilityResponse(therapists', bookings',
                                           bookings[id].therapistId, date)
                        = AvailabilityResponse(therapists',
                              WithoutBooking(bookings', id),
                              bookings[id].therapistId, date)
                /\ ~StartTaken(bookings', bookings[id])
                      => CreateBookingChecks(therapists', bookings',
                                             SameSlotBody(bookings[id])) = None
       /\ \A user \in Patients, body \in CreateBodies :
             (/\ resp'.op = "createBooking"
              /\ \E i \in 1..Len(bookings) :
                    /\ bookings[i].status = "cancelled"
                    /\ SameSlotBody(bookings[i]).therapistId = body.therapistId
                    /\ SameSlotBody(bookings[i]).sessionDate = body.sessionDate
                    /\ bookings[i].sessionTime = body.sessionTime
              /\ ~SameStartBooked(body)
              /\ CreateBooking(user, body))
             => Accepted(body)]_vars

\* booking 1 was cancelled and a second booking for the same therapist,
\* day and start time was accepted; with booking 1 alone in the table the
\* query lists the 09:00 slot
C26_Witness ==
    /\ resp.op = "createBooking"
    /\ resp.status = 201
    /\ Len(bookings) = 2
    /\ bookings[1].status = "cancelled"
    /\ bookings[2].status = "pending"
    /\ SameTherapistAndDay(bookings[1], bookings[2])
    /\ bookings[1].sessionTime = T0900
    /\ bookings[2].sessionTime = T0900
    /\ AvailabilityResponse(therapists, WithoutBooking(bookings, 2),
                            "t1", 1).data[1].availableSlots[1] = T0900


\* C27: every booking accepted by createBooking starts at a time that
\* getTherapistAvailability, asked for the same therapist and date
\* immediately before the creation, lists in availableSlots.
C27_AcceptedStartIsListed ==
    [][\A user \in Patients, body \in AllCreateBodies :
          (/\ resp'.op = "createBooking"
           /\ resp'.status = 201
           /\ CreateBooking(user, body))
          => LET answer == AvailabilityResponse(therapists, bookings,
                               body.therapistId, body.sessionDate)
             IN /\ answer.status = 200
                /\ answer.data[1].available
                /\ \E k \in 1..Len(answer.data[1].availableSlots) :
                      answer.data[1].availableSlots[k] = body.sessionTime]_vars


\* C28: in every reachable state, a booking for which a session exists has
\* status completed.
C28_SessionImpliesCompleted ==
    \A i \in 1..Len(sessions) :
        /\ sessions[i].bookingId \in 1..Len(bookings)
        /\ bookings[sessions[i].bookingId].status = "completed"


\* the number of the therapist's sessions whose patient rating is r
RatedWith(t, r) ==
    Cardinality({i \in 1..Len(sessions) :
                    /\ sessions[i].therapistId = t
                    /\ sessions[i].patientRating = Some(r)})

ReviewCount(t) ==
    RatedWith(t, 1) + RatedWith(t, 2) + RatedWith(t, 3) + RatedWith(t, 4)
        + RatedWith(t, 5)

RatingSum(t) ==
    RatedWith(t, 1) + 2 * RatedWith(t, 2) + 3 * RatedWith(t, 3)
        + 4 * RatedWith(t, 4) + 5 * RatedWith(t, 5)

\* the stored rating, in hundredths, is RatingSum / ReviewCount to the
\* precision of the column
RatingsMatchSessions ==
    \A t \in DOMAIN therapists :
        /\ therapists[t].totalReviews = ReviewCount(t)
        /\ IF ReviewCount(t) = 0 THEN therapists[t].rating = 0
           ELSE LET diff == 100 * RatingSum(t)
                                - therapists[t].rating * ReviewCount(t)
                IN /\ 2 * diff <= ReviewCount(t)
                   /\ 2 * diff > -ReviewCount(t)
                   /\ (100 * RatingSum(t)) % ReviewCount(t) = 0 => diff = 0

\* C29: addPatientFeedback is accepted only from the session's patient, on a
\* completed session, with a rating from 1 to 5; after any sequence of
\* accepted feedback requests handled one at a time (repeated feedback on a
\* session overwrites its rating), the therapist's totalReviews equals the
\* number of that therapist's sessions with a non-null patientRating and the
\* rating equals the sum of those ratings divided by that number.
C29_RatingIsAverageOfFeedback ==
    /\ []RatingsMatchSessions
    /\ [][\A user \in SessionPatients, id \in BookingIds,
             r \in FeedbackRatings :
             (/\ resp'.op = "addPatientFeedback"
              /\ AddPatientFeedback(user, id, r))
             => IF /\ id \in 1..Len(sessions)
                   /\ sessions[id].patientId = user
                   /\ sessions[id].isCompleted
                   /\ r \in 1..5
                THEN /\ resp'.status = 200
                     /\ sessions' = [sessions EXCEPT
                            ![id].patientRating = Some(r)]
                ELSE /\ resp'.status \in {400, 403, 404}
                     /\ sessions' = sessions
                     /\ therapists' = therapists]_vars

\* the patient rated two sessions of t1 with 2 and 5: the therapist has two
\* reviews and rating 3.50
C29_Witness ==
    /\ resp.op = "addPatientFeedback"
    /\ resp.status = 200
    /\ Len(sessions) = 2
    /\ sessions[1].therapistId = "t1"
    /\ sessions[2].therapistId = "t1"
    /\ sessions[1].patientRating = Some(2)
    /\ sessions[2].patientRating = Some(5)
    /\ therapists["t1"].totalReviews = 2
    /\ therapists["t1"].rating = 350


(***************************************************************************)
(* Failures of the reminder email                                          *)
(***************************************************************************)
\* the run selects the booking: dated tomorrow, active and not yet reminded
SelectedForReminder(booking) ==
    /\ DatedTomorrow(booking)
    /\ IsActive(booking)
    /\ ~booking.reminderSent

\* the reminder emails the step sent for the booking
NewRemindersOf(id) ==
    Cardinality({k \in (Len(reminders) + 1)..Len(reminders') :
                    reminders'[k] = id})

\* a booking flagged as reminded had a reminder email sent
FlaggedWereSent ==
    \A i \in 1..Len(bookings) : bookings[i].reminderSent => RemindersOf(i) >= 1

\* C30: in a reminder job run, a failure to send the reminder for one
\* booking leaves that booking's reminderSent false and does not stop the
\* run: every other selected booking is still processed, and reminderSent is
\* true only for bookings whose reminder send succeeded.
C30_ReminderFailureIsLocal ==
    /\ []FlaggedWereSent
    /\ [][\A failed \in SUBSET BookingIds :
             (/\ resp'.op = "sendSessionReminders"
              /\ SendSessionReminders(failed))
             => /\ Len(bookings') = Len(bookings)
                /\ SubSeq(reminders', 1, Len(reminders)) = reminders
                /\ \A i \in 1..Len(bookings) :
                      IF SelectedForReminder(bookings[i]) /\ i \notin failed
                      THEN /\ bookings'[i] =
                                  [bookings[i] EXCEPT !.reminderSent = TRUE]
                           /\ NewRemindersOf(i) = 1
                      ELSE /\ bookings'[i] = bookings[i]
                           /\ NewRemindersOf(i) = 0]_vars

\* a run selected bookings 1 and 2; the send for booking 1 threw and the
\* reminder for booking 2 was still sent
C30_Witness ==
    /\ resp.op = "sendSessionReminders"
    /\ Len(bookings) = 2
    /\ today = 1
    /\ DatedTomorrow(bookings[1]) /\ DatedTomorrow(bookings[2])
    /\ IsActive(bookings[1]) /\ IsActive(bookings[2])
    /\ ~bookings[1].reminderSent
    /\ bookings[2].reminderSent
    /\ reminders = <<2>>

====
